---- MODULE Spec2Model ----
(***************************************************************************)
(* The ingestion pipeline of mozaika-tech/core: the SQS poll loop          *)
(* (SQSConsumer.poll_messages), the per-message pipeline                   *)
(* (SQSConsumer.process_message), the extraction retry policy              *)
(* (ExtractionService.extract_event_data) and the event store              *)
(* (EventRepository.upsert_event / link_categories), as a state machine.   *)
(*                                                                         *)
(* Strings are sequences of one-character strings, so that lower-casing,   *)
(* truncation, concatenation and substring tests are computed as the code  *)
(* computes them.  One step of a task is the code between two awaits: the  *)
(* event loop runs a coroutine without interruption until it suspends.     *)
(***************************************************************************)
EXTENDS Integers, Sequences, FiniteSets, TLC

(***************************************************************************)
(* Bounds of the model                                                     *)
(***************************************************************************)
\* messages placed on the queue
NumMsgs == 2
\* messages handed out by receive_message, redeliveries included
MaxDeliveries == 3

(***************************************************************************)
(* Program constants                                                       *)
(***************************************************************************)
\* extract_event_data(raw_text, max_retries = 3)
max_retries == 3
\* raw_text[:200]
FingerprintPrefixLen == 200
\* title: str = Field(..., max_length=120)
TitleMaxLength == 120
\* settings.sqs_batch_size
sqs_batch_size == 10

\* None, for an atom and for a string
NULL == "null"
None == <<"<None>">>

(***************************************************************************)
(* Strings                                                                 *)
(***************************************************************************)
UpperToLower ==
  [c \in {"A","B","C","D","E","F","G","H","I","J","K","L","M","N","O","P","Q",
          "R","S","T","U","V","W","X","Y","Z"} |->
     CASE c = "A" -> "a" [] c = "B" -> "b" [] c = "C" -> "c" [] c = "D" -> "d"
       [] c = "E" -> "e" [] c = "F" -> "f" [] c = "G" -> "g" [] c = "H" -> "h"
       [] c = "I" -> "i" [] c = "J" -> "j" [] c = "K" -> "k" [] c = "L" -> "l"
       [] c = "M" -> "m" [] c = "N" -> "n" [] c = "O" -> "o" [] c = "P" -> "p"
       [] c = "Q" -> "q" [] c = "R" -> "r" [] c = "S" -> "s" [] c = "T" -> "t"
       [] c = "U" -> "u" [] c = "V" -> "v" [] c = "W" -> "w" [] c = "X" -> "x"
       [] c = "Y" -> "y" [] c = "Z" -> "z"]

\* str.lower()
lower(s) ==
  [i \in 1..Len(s) |-> IF s[i] \in DOMAIN UpperToLower THEN UpperToLower[s[i]] ELSE s[i]]

\* sub in s
Contains(sub, s) ==
  \E i \in 0..(Len(s) - Len(sub)) : SubSeq(s, i + 1, i + Len(sub)) = sub

\* the characters \s matches
Whitespace == {" ", "\n", "\r", "\t"}

MinOf(S) == CHOOSE x \in S : \A y \in S : x <= y
MaxOf(S) == CHOOSE x \in S : \A y \in S : x >= y

\* the length of the longest prefix of s made of characters of S
RunLenIn(s, S) ==
  LET stop == {i \in 1..Len(s) : s[i] \notin S}
  IN IF stop = {} THEN Len(s) ELSE MinOf(stop) - 1

\* the length of the longest prefix of s made of characters not of S
RunLenNotIn(s, S) ==
  LET stop == {i \in 1..Len(s) : s[i] \in S}
  IN IF stop = {} THEN Len(s) ELSE MinOf(stop) - 1

StartsWith(s, p) == Len(s) >= Len(p) /\ SubSeq(s, 1, Len(p)) = p

\* s.find(sub) + 1: where the first occurrence of sub starts (0: nowhere)
IndexOf(s, sub) ==
  LET at == {i \in 1..(Len(s) - Len(sub) + 1) : SubSeq(s, i, i + Len(sub) - 1) = sub}
  IN IF at = {} THEN 0 ELSE MinOf(at)

\* re.sub(r'\s+', ' ', text): every run of whitespace becomes one space
RECURSIVE CollapseWhitespace(_)
CollapseWhitespace(s) ==
  IF s = <<>> THEN <<>>
  ELSE LET w == RunLenIn(s, Whitespace)
           n == RunLenNotIn(s, Whitespace)
       IN IF w > 0 THEN <<" ">> \o CollapseWhitespace(SubSeq(s, w + 1, Len(s)))
          ELSE SubSeq(s, 1, n) \o CollapseWhitespace(SubSeq(s, n + 1, Len(s)))

\* str.strip()
LStrip(s) == SubSeq(s, RunLenIn(s, Whitespace) + 1, Len(s))

RStrip(s) ==
  LET keep == {i \in 1..Len(s) : s[i] \notin Whitespace}
  IN IF keep = {} THEN <<>> ELSE SubSeq(s, 1, MaxOf(keep))

Strip(s) == LStrip(RStrip(s))

\* str.replace(old, new): every non-overlapping occurrence, left to right
RECURSIVE ReplaceAll(_, _, _)
ReplaceAll(s, old, new) ==
  LET k == IndexOf(s, old)
  IN IF k = 0 THEN s
     ELSE SubSeq(s, 1, k - 1) \o new \o ReplaceAll(SubSeq(s, k + Len(old), Len(s)), old, new)

\* str.replace(old, '', 1): the first occurrence of old is removed
RemoveFirst(s, old) ==
  LET k == IndexOf(s, old)
  IN IF k = 0 THEN s ELSE SubSeq(s, 1, k - 1) \o SubSeq(s, k + Len(old), Len(s))

\* re.sub(r'\n{3,}', '\n\n', text)
RECURSIVE CollapseNewlines(_)
CollapseNewlines(s) ==
  IF s = <<>> THEN <<>>
  ELSE LET n == RunLenIn(s, {"\n"})
           k == RunLenNotIn(s, {"\n"})
       IN IF n >= 3 THEN <<"\n", "\n">> \o CollapseNewlines(SubSeq(s, n + 1, Len(s)))
          ELSE IF n >= 1 THEN SubSeq(s, 1, n) \o CollapseNewlines(SubSeq(s, n + 1, Len(s)))
          ELSE SubSeq(s, 1, k) \o CollapseNewlines(SubSeq(s, k + 1, Len(s)))

\* text.split('\n'): a sequence of lines
RECURSIVE SplitLines(_)
SplitLines(s) ==
  LET k == IndexOf(s, <<"\n">>)
  IN IF k = 0 THEN <<s>>
     ELSE <<SubSeq(s, 1, k - 1)>> \o SplitLines(SubSeq(s, k + 1, Len(s)))

\* '\n'.join(lines)
RECURSIVE JoinLines(_)
JoinLines(ls) ==
  IF ls = <<>> THEN <<>>
  ELSE IF Len(ls) = 1 THEN ls[1]
  ELSE ls[1] \o <<"\n">> \o JoinLines(Tail(ls))

\* the characters that stand for the non-ASCII glyphs of the bullet patterns
Bullet == "<bullet>"
DashChars == {"-", "<en-dash>", "<em-dash>"}
BulletChars == {Bullet, "<middle-dot>", "<bullet-operator>", "<white-bullet>",
                "<black-small-square>", "<white-small-square>"}
Digits == {"0", "1", "2", "3", "4", "5", "6", "7", "8", "9"}

DigitRun(s) == RunLenIn(s, Digits)

WhitespaceRun(s) == RunLenIn(s, Whitespace)

\* the length of the match of the first bullet pattern that matches at the start
\* of the line (0: none matches): a marker followed by \s+
BulletMatchLen(line) ==
  LET d == DigitRun(line)
      markerLen ==
        IF line # <<>> /\ Head(line) \in DashChars THEN 1
        ELSE IF line # <<>> /\ Head(line) = "*" THEN 1
        ELSE IF line # <<>> /\ Head(line) \in BulletChars THEN 1
        ELSE IF d >= 1 /\ Len(line) > d /\ line[d + 1] \in {".", ")"} THEN d + 1
        ELSE 0
      ws == WhitespaceRun(SubSeq(line, markerLen + 1, Len(line)))
  IN IF markerLen >= 1 /\ ws >= 1 THEN markerLen + ws ELSE 0

\* the body of the per-line loop
NormalizeLine(rawLine) ==
  LET line == Strip(rawLine)
  IN IF line = <<>> THEN <<>>
     ELSE LET collapsed == CollapseWhitespace(line)
              m == BulletMatchLen(collapsed)
          IN IF m > 0 THEN <<Bullet, " ">> \o SubSeq(collapsed, m + 1, Len(collapsed))
             ELSE collapsed

HttpPrefix == <<"h", "t", "t", "p", ":", "/", "/">>
HttpsPrefix == <<"h", "t", "t", "p", "s", ":", "/", "/">>

NonWhitespaceRun(s) == RunLenNotIn(s, Whitespace)

\* the length of the match of r'https?://[^\s\n]+' at the start of s (0: no match)
UrlMatchLen(s) ==
  LET p == IF StartsWith(s, HttpsPrefix) THEN Len(HttpsPrefix)
           ELSE IF StartsWith(s, HttpPrefix) THEN Len(HttpPrefix) ELSE 0
      n == NonWhitespaceRun(SubSeq(s, p + 1, Len(s)))
  IN IF p > 0 /\ n >= 1 THEN p + n ELSE 0

\* re.findall(url_pattern, text): the non-overlapping matches, left to right
RECURSIVE FindUrls(_)
FindUrls(s) ==
  LET at == {i \in 1..Len(s) : UrlMatchLen(SubSeq(s, i, Len(s))) > 0}
  IN IF at = {} THEN <<>>
     ELSE LET i == MinOf(at)
              m == UrlMatchLen(SubSeq(s, i, Len(s)))
          IN <<SubSeq(s, i, i + m - 1)>> \o FindUrls(SubSeq(s, i + m, Len(s)))

\* the loop over urls: a url seen before is removed with text.replace(url, '', 1)
RECURSIVE RemoveDuplicateUrls(_, _, _)
RemoveDuplicateUrls(text, urls, seen_urls) ==
  IF urls = <<>> THEN text
  ELSE IF Head(urls) \in seen_urls
       THEN RemoveDuplicateUrls(RemoveFirst(text, Head(urls)), Tail(urls), seen_urls)
       ELSE RemoveDuplicateUrls(text, Tail(urls), seen_urls \union {Head(urls)})

\* beautify_text(text)
beautify_text(text) ==
  IF text = None \/ text = <<>> THEN <<>>
  ELSE LET t1 == ReplaceAll(text, <<"\r", "\n">>, <<"\n">>)
           t2 == ReplaceAll(t1, <<"\r">>, <<"\n">>)
           t3 == CollapseNewlines(t2)
           lines == SplitLines(t3)
           normalized_lines == [i \in 1..Len(lines) |-> NormalizeLine(lines[i])]
           t4 == JoinLines(normalized_lines)
           t5 == RemoveDuplicateUrls(t4, FindUrls(t4), {})
       IN Strip(CollapseWhitespace(t5))

(***************************************************************************)
(* The texts beautify_text is run on by itself                             *)
(***************************************************************************)
\* the longest text made of the characters of TextAlphabet
MaxTextLen == 3

\* a letter, a dash (a bullet when a space follows), and the white space
TextAlphabet == {"a", "-", " ", "\n", "\r"}

ShortTexts == UNION {[1..k -> TextAlphabet] : k \in 0..MaxTextLen}

\* "Line 1\r\nLine 2\rLine 3\n\n\n\nLine 4" and the text the unit test
\* test_normalize_line_breaks expects for it
LineBreakExample ==
  <<"L", "i", "n", "e", " ", "1", "\r", "\n", "L", "i", "n", "e", " ", "2", "\r", "L",
    "i", "n", "e", " ", "3", "\n", "\n", "\n", "\n", "L", "i", "n", "e", " ", "4">>
LineBreakExpected ==
  <<"L", "i", "n", "e", " ", "1", "\n", "L", "i", "n", "e", " ", "2", "\n", "L", "i",
    "n", "e", " ", "3", "\n", "\n", "L", "i", "n", "e", " ", "4">>

\* one-line texts with URLs: without a duplicate, with a duplicate, with a
\* duplicate between other URLs, and with a URL that extends the duplicated one
UrlTexts ==
  {<<"s", "e", "e", " ", "h", "t", "t", "p", ":", "/", "/", "a", " ", "a", "n", "d",
       " ", "h", "t", "t", "p", ":", "/", "/", "b">>,
   <<"h", "t", "t", "p", ":", "/", "/", "a", " ", "x", " ", "h", "t", "t", "p", ":",
       "/", "/", "a">>,
   <<"h", "t", "t", "p", ":", "/", "/", "a", " ", "h", "t", "t", "p", ":", "/", "/",
       "b", " ", "h", "t", "t", "p", ":", "/", "/", "a">>,
   <<"s", "e", "e", " ", "h", "t", "t", "p", ":", "/", "/", "a", " ", "a", "n", "d",
       " ", "h", "t", "t", "p", ":", "/", "/", "a", " ", "e", "n", "d">>,
   <<"h", "t", "t", "p", ":", "/", "/", "a", "/", "b", " ", "h", "t", "t", "p", ":",
       "/", "/", "a", " ", "h", "t", "t", "p", ":", "/", "/", "a">>}

\* lines with list markers
ListTexts ==
  {<<"1", ".", " ", "a", "\n", "2", ")", " ", "b", "\n", "*", " ", "c">>,
   <<"-", "\n", "f", "o", "o">>,
   <<"p", "1", "\n", "\n", "\n", "p", "2">>}

BeautifyTexts == ShortTexts \union UrlTexts \union ListTexts \union {LineBreakExample, None}

(***************************************************************************)
(* The messages and the model's answers the pipeline is run on             *)
(***************************************************************************)
Pad199 == [i \in 1..199 |-> "x"]

\* two raw texts whose normalized forms agree, up to letter case, on their
\* first 200 characters and differ after them
RawTextA == Pad199 \o <<"K", " ", " ", "o", "n", "e">>
RawTextB == <<" ">> \o Pad199 \o <<"k", "\r", "\n", "t", "w", "o", "\n">>

UrlA == <<"h", "t", "t", "p", "s", ":", "/", "/", "t", ".", "m", "e", "/", "A">>
UrlB == <<"H", "T", "T", "P", "S", ":", "/", "/", "T", ".", "M", "E", "/", "a">>

\* message['Body'] of the messages put on the queue, by body id.  keys: the
\* keys of the JSON object; metadata_keys: the keys of its metadata object.
BodyTable ==
  <<[json_ok |-> TRUE,
     keys |-> {"source_id", "run_id", "external_id", "text", "posted_at", "metadata"},
     source_id |-> "1", run_id |-> "2", external_id |-> <<"e", "1">>,
     text |-> RawTextA, posted_at |-> "2025-11-15T14:00:00",
     metadata_keys |-> {"source_type", "source_url"},
     source_type |-> "telegram", source_url |-> UrlA],
    [json_ok |-> TRUE,
     keys |-> {"source_id", "run_id", "external_id", "text", "metadata"},
     source_id |-> "1", run_id |-> "2", external_id |-> <<"e", "2">>,
     text |-> RawTextB, posted_at |-> NULL,
     metadata_keys |-> {"source_url"},
     source_type |-> NULL, source_url |-> UrlB],
    [json_ok |-> FALSE,
     keys |-> {},
     source_id |-> NULL, run_id |-> NULL, external_id |-> None,
     text |-> None, posted_at |-> NULL,
     metadata_keys |-> {},
     source_type |-> NULL, source_url |-> None],
    [json_ok |-> TRUE,
     keys |-> {"source_id", "run_id", "text"},
     source_id |-> "1", run_id |-> "2", external_id |-> None,
     text |-> RawTextA, posted_at |-> NULL,
     metadata_keys |-> {},
     source_type |-> NULL, source_url |-> None],
    [json_ok |-> TRUE,
     keys |-> {"external_id", "text"},
     source_id |-> NULL, run_id |-> NULL, external_id |-> <<"e", "5">>,
     text |-> <<"h", "i">>, posted_at |-> NULL,
     metadata_keys |-> {},
     source_type |-> NULL, source_url |-> None]>>

BodyIds == DOMAIN BodyTable

\* the bodies of the messages on the queue; the body with external_id and text
\* only is handed to process_message on its own (CallSpec)
QueueBodyIds == {b \in BodyIds : BodyTable[b].keys # {"external_id", "text"}}

\* the strings datetime.fromisoformat accepts
IsoDates == {"2025-11-15T14:00:00"}

\* the rows of the categories table (seeded out of band)
CategoryTable == {"c1", "c2"}

\* what one call of llm.achat can do: answer with a text (json_ok: json.loads
\* accepts it, and then data is the object), or raise an error with a message
LLMOutcomes ==
  <<[kind |-> "text", json_ok |-> TRUE,
     data |-> [title |-> <<"A", "b">>, language |-> <<"U", "k">>, country |-> <<"u", "a">>,
               city |-> "Kyiv", organizer |-> "org1",
               status |-> "active", occurs_from |-> "d1", occurs_to |-> "d3",
               deadline_at |-> "d0",
               categories_slugs |-> <<"c2", "zz", "c1">>]],
    [kind |-> "text", json_ok |-> TRUE,
     data |-> [title |-> <<"a", "B">>, language |-> <<"e", "n">>, country |-> None,
               city |-> "Lviv", organizer |-> NULL,
               status |-> "cancelled", occurs_from |-> "d2", occurs_to |-> NULL,
               deadline_at |-> "d1",
               categories_slugs |-> <<>>]],
    [kind |-> "text", json_ok |-> TRUE,
     data |-> [title |-> <<"C", "d">>, language |-> <<"u", "k">>, country |-> None,
               city |-> NULL, organizer |-> NULL,
               status |-> "active", occurs_from |-> NULL, occurs_to |-> NULL,
               deadline_at |-> NULL,
               categories_slugs |-> <<"zz">>]],
    [kind |-> "text", json_ok |-> FALSE],
    [kind |-> "text", json_ok |-> TRUE,
     data |-> [title |-> <<"A", "b">>, language |-> <<"u", "k", "r">>, country |-> None,
               city |-> NULL, organizer |-> NULL,
               status |-> "active", occurs_from |-> NULL, occurs_to |-> NULL,
               deadline_at |-> NULL,
               categories_slugs |-> <<>>]],
    [kind |-> "error", msg |-> <<"4", "2", "9", " ", "T", "o", "o", " ", "M", "a", "n", "y">>],
    [kind |-> "error", msg |-> <<"Q", "u", "o", "t", "a", " ", "e", "x", "c", "e", "e", "d", "e", "d">>],
    [kind |-> "error", msg |-> <<"F", "a", "i", "l", "e", "d", " ", "t", "o", " ", "g", "e", "n", "e", "r", "a", "t", "e">>],
    [kind |-> "error", msg |-> <<"C", "o", "n", "n", "e", "c", "t", "i", "o", "n", " ", "r", "e", "s", "e", "t">>]>>

LLMOutcomeIds == DOMAIN LLMOutcomes

(***************************************************************************)
(* models/event.py                                                         *)
(***************************************************************************)
\* SQSMessage(...): the fields pydantic requires and their types
SQSMessageValid(source_id, run_id, external_id, text) ==
  /\ source_id # NULL
  /\ run_id # NULL
  /\ external_id # None
  /\ text # None

\* EventExtraction(**data): the field constraints and the two validators
EventExtractionValid(data) ==
  /\ data.title # None
  /\ Len(data.title) <= TitleMaxLength
  /\ data.language # None
  /\ Len(data.language) = 2
  /\ (data.country # None /\ data.country # <<>>) => Len(data.country) = 2

\* v.upper(), on the letters of the country codes of the model
upper(s) ==
  [i \in 1..Len(s) |->
     IF \E c \in DOMAIN UpperToLower : UpperToLower[c] = s[i]
     THEN CHOOSE c \in DOMAIN UpperToLower : UpperToLower[c] = s[i]
     ELSE s[i]]

\* the object EventExtraction(**data) constructs: the validators' return values
EventExtraction(data) ==
  [data EXCEPT !.language = lower(data.language),
               !.country = IF data.country # None /\ data.country # <<>>
                           THEN upper(data.country) ELSE None]

(***************************************************************************)
(* database/events.py: the fingerprint                                     *)
(***************************************************************************)
\* a variant that hashes the whole text
text_prefix_WholeText(raw_text) == raw_text

\* raw_text[:200] if len(raw_text) > 200 else raw_text
text_prefix(raw_text) ==
  IF Len(raw_text) > FingerprintPrefixLen THEN SubSeq(raw_text, 1, FingerprintPrefixLen)
  ELSE raw_text

\* f"{source_url.lower()}|{title.lower()}|{text_prefix.lower()}"
fingerprint_str(source_url, title, raw_text) ==
  lower(source_url) \o <<"|">> \o lower(title) \o <<"|">> \o lower(text_prefix(raw_text))

\* f"https://source.com/{sqs_msg.external_id}"
PlaceholderUrl(external_id) ==
  <<"h", "t", "t", "p", "s", ":", "/", "/", "s", "o", "u", "r", "c", "e", ".", "c", "o", "m", "/">>
    \o external_id

\* sqs_msg.metadata.get('source_url', placeholder)
SourceUrl(b) ==
  IF "source_url" \in BodyTable[b].metadata_keys THEN BodyTable[b].source_url
  ELSE PlaceholderUrl(BodyTable[b].external_id)

\* sqs_msg.metadata.get('source_type', 'telegram')
SourceType(b) ==
  IF "source_type" \in BodyTable[b].metadata_keys THEN BodyTable[b].source_type
  ELSE "telegram"

\* beautified_text of the message with body b
BeautifiedText == [b \in BodyIds |-> beautify_text(BodyTable[b].text)]

\* the answers of the model that json.loads accepts
JsonOutcomeIds ==
  {o \in LLMOutcomeIds : LLMOutcomes[o].kind = "text" /\ LLMOutcomes[o].json_ok}

\* the arguments generate_fingerprint is run on by itself: URLs and titles
\* that differ in letter case only, and some that contain the separator
FpUrls == {UrlA, UrlB, <<"u">>, <<"u", "|", "b">>}
FpTitles == {<<"A", "b">>, <<"a", "B">>, <<"c">>, <<"b", "|", "c">>}

\* texts of 2, 200, 201 and 203 characters: some differ in letter case only,
\* some after the 200th character only, some at the 200th
FpTexts ==
  {<<"h", "i">>, <<"H", "i">>, <<"h", "o">>,
   Pad199 \o <<"K">>, Pad199 \o <<"k", "1">>, Pad199 \o <<"L", "1">>,
   Pad199 \o <<"K", "o", "n", "e">>, Pad199 \o <<"K", "t", "w", "o">>}

\* every string the model hashes
HashedStrings ==
  {fingerprint_str(SourceUrl(b), LLMOutcomes[o].data.title, BeautifiedText[b]) :
     b \in {x \in BodyIds : BodyTable[x].json_ok /\ BodyTable[x].external_id # None},
     o \in JsonOutcomeIds}
  \union {fingerprint_str(u, t, x) : u \in FpUrls, t \in FpTitles, x \in FpTexts}

RECURSIVE SetToSeq(_)
SetToSeq(S) ==
  IF S = {} THEN <<>> ELSE LET x == CHOOSE x \in S : TRUE IN <<x>> \o SetToSeq(S \ {x})

DigestTable == SetToSeq(HashedStrings)

HexDigits ==
  <<"0", "1", "2", "3", "4", "5", "6", "7", "8", "9", "a", "b", "c", "d", "e", "f">>

DigestLen == 64

\* .hexdigest(): the 64 hexadecimal digits of the number n
hexdigest(n) ==
  [i \in 1..DigestLen |->
     IF i = DigestLen THEN HexDigits[(n % 16) + 1]
     ELSE IF i = DigestLen - 1 THEN HexDigits[((n \div 16) % 16) + 1]
     ELSE IF i = DigestLen - 2 THEN HexDigits[((n \div 256) % 16) + 1]
     ELSE "0"]

\* hashlib.sha256(s.encode()).hexdigest(): a digest without collisions, the
\* number of the string among the strings hashed standing for the digest
sha256(s) == hexdigest(CHOOSE d \in DOMAIN DigestTable : DigestTable[d] = s)

\* EventRepository.generate_fingerprint
generate_fingerprint(source_url, title, raw_text) ==
  sha256(fingerprint_str(source_url, title, raw_text))

(***************************************************************************)
(* llm/extraction.py: the classification of one attempt                    *)
(***************************************************************************)
\* str(e) of pydantic's ValidationError
ValidationErrorMsg ==
  <<"v", "a", "l", "i", "d", "a", "t", "i", "o", "n", " ", "e", "r", "r", "o", "r">>

\* "429" in error_msg or "quota" in error_msg.lower() or "rate" in error_msg.lower()
IsRateLimit(error_msg) ==
  \/ Contains(<<"4", "2", "9">>, error_msg)
  \/ Contains(<<"q", "u", "o", "t", "a">>, lower(error_msg))
  \/ Contains(<<"r", "a", "t", "e">>, lower(error_msg))

\* which branch of the try statement an attempt with outcome o ends in:
\* "ok" (return extraction), "json" (except json.JSONDecodeError),
\* "rate" or "other" (except Exception, by the message)
AttemptClass(o) ==
  LET out == LLMOutcomes[o]
  IN IF out.kind = "error"
     THEN IF IsRateLimit(out.msg) THEN "rate" ELSE "other"
     ELSE IF ~out.json_ok THEN "json"
     ELSE IF ~EventExtractionValid(out.data)
          THEN IF IsRateLimit(ValidationErrorMsg) THEN "rate" ELSE "other"
     ELSE "ok"

\* every answer taken for a valid extraction
AttemptClasses_AllOk == [o \in LLMOutcomeIds |-> "ok"]

\* the branch of every outcome
AttemptClasses == [o \in LLMOutcomeIds |-> AttemptClass(o)]

RECURSIVE Pow2(_)
Pow2(n) == IF n = 0 THEN 1 ELSE 2 * Pow2(n - 1)

Min(a, b) == IF a <= b THEN a ELSE b

\* the rate-limit wait without its cap
Backoff_Uncapped(cls, attempt) ==
  IF cls = "rate" THEN 5 * Pow2(attempt) ELSE Pow2(attempt)

\* the argument of asyncio.sleep after a failed attempt that is not the last
Backoff(cls, attempt) ==
  IF cls = "rate" THEN Min(30, 5 * Pow2(attempt)) ELSE Pow2(attempt)

\* a variant that gives up silently whatever the error: return None after the
\* last attempt
AfterFailure_ReturnsNone(cls, attempt) ==
  IF attempt < max_retries - 1 THEN "retry" ELSE "none"

\* a variant that re-raises whatever the error after the last attempt
AfterFailure_Raises(cls, attempt) ==
  IF attempt < max_retries - 1 THEN "retry" ELSE "raise"

\* a variant that goes on to another attempt after the last one
AfterFailure_AlwaysRetries(cls, attempt) == "retry"

\* a variant with the two ends swapped: None after a rate limit, the error
\* re-raised otherwise
AfterFailure_EndsSwapped(cls, attempt) ==
  IF attempt < max_retries - 1 THEN "retry"
  ELSE IF cls = "rate" THEN "none"
  ELSE "raise"

\* what extract_event_data does after a failed attempt: "retry" (sleep, next
\* attempt), "none" (return None) or "raise" (re-raise the error)
AfterFailure(cls, attempt) ==
  IF attempt < max_retries - 1 THEN "retry"
  ELSE IF cls = "rate" THEN "raise"
  ELSE "none"

RECURSIVE FilterSeq(_, _)
FilterSeq(seq, S) ==
  IF seq = <<>> THEN <<>>
  ELSE IF Head(seq) \in S THEN <<Head(seq)>> \o FilterSeq(Tail(seq), S)
  ELSE FilterSeq(Tail(seq), S)

\* the extraction with the categories the model answered
Extraction_Unfiltered(o, categories) == EventExtraction(LLMOutcomes[o].data)

\* the extraction returned for outcome o: the validated object with
\* categories_slugs filtered to self.categories
Extraction(o, categories) ==
  LET e == EventExtraction(LLMOutcomes[o].data)
  IN [e EXCEPT !.categories_slugs = FilterSeq(e.categories_slugs, categories)]

(***************************************************************************)
(* The state                                                               *)
(***************************************************************************)
VARIABLES
  running,            \* SQSConsumer.running
  metrics,            \* SQSConsumer.metrics
  queue,              \* the messages on the SQS queue (received or not, not deleted)
  body,               \* the body id of each message
  receive_count,      \* how often each message was received
  pollpc,             \* where poll_messages is: "receive" or "gather"
  deliveries,         \* the messages receive_message has handed out so far
  messages,           \* response.get('Messages', []) of the current iteration
  tasks,              \* the process_message coroutine of each message of the batch
  events,             \* the rows of the events table
  event_categories,   \* the rows of the event_categories table
  vector_index,       \* the documents inserted in the vector index: <<event id, k>>
                      \* is the k-th document inserted for the event
  link_calls,         \* the link_categories calls: <<event id, k>> is the k-th for the event
  new_returns,        \* the upsert_event calls that returned is_new = True:
                      \* <<fingerprint, k>> is the k-th for the fingerprint
  call                \* the call of a function run on its own: its name, its
                      \* arguments and what it returned (CallSpec)

vars == <<running, metrics, queue, body, receive_count, pollpc, deliveries, messages,
          tasks, events, event_categories, vector_index, link_calls, new_returns,
          call>>

\* a bag as a set of <<key, k>>: how many for a key, and one more
CountOf(bag, key) == Cardinality({e \in bag : e[1] = key})
AddOne(bag, key) == bag \union {<<key, CountOf(bag, key) + 1>>}

Msgs == 1..NumMsgs

\* no function is run on its own
NoCall == [op |-> "none"]

IdleTask ==
  [pc |-> "idle", attempt |-> 0, n_rate |-> 0, n_soft |-> 0, backoff |-> 0,
   extraction |-> 0, event_id |-> 0, is_new |-> FALSE, link_i |-> 0,
   result |-> "pending", cause |-> "none", calls |-> {}]

\* the categories loaded by initialize(): ExtractionService(category_slugs)
categories == CategoryTable

(***************************************************************************)
(* process_message up to its first await                                   *)
(***************************************************************************)
\* json.loads, the body[...] lookups, fromisoformat and SQSMessage(...) raise nothing
ParseOk(b) ==
  LET B == BodyTable[b]
  IN /\ B.json_ok
     /\ "external_id" \in B.keys
     /\ "text" \in B.keys
     /\ (B.posted_at # NULL => B.posted_at \in IsoDates)
     /\ SQSMessageValid(B.source_id, B.run_id, B.external_id, B.text)

\* the coroutine after its first step: suspended in llm.achat, or returned
\* False from the except clause
StartedTask(b) ==
  IF ParseOk(b)
  THEN [IdleTask EXCEPT !.pc = "achat"]
  ELSE [IdleTask EXCEPT !.pc = "done", !.result = "False", !.cause = "malformed"]

\* a variant of the except clause that returns True
ReturnFalse_ReturnsTrue(t, why) ==
  [t EXCEPT !.pc = "done", !.result = "True", !.cause = why]

\* except Exception: error_count += 1; return False
ReturnFalse(t, why) ==
  [t EXCEPT !.pc = "done", !.result = "False", !.cause = why]

\* a variant that returns False where process_message returns True
ReturnTrue_ReturnsFalse(t, why) ==
  [t EXCEPT !.pc = "done", !.result = "False", !.cause = why]

\* return True
ReturnTrue(t, why) ==
  [t EXCEPT !.pc = "done", !.result = "True", !.cause = why]

\* a variant that counts a duplicate as an error too
AddMetrics_DuplicateIsError(dProcessed, dError, dDuplicate) ==
  [processed_count |-> metrics.processed_count + dProcessed,
   error_count |-> metrics.error_count + dError + dDuplicate,
   duplicate_count |-> metrics.duplicate_count + dDuplicate]

\* a variant that loses the count of an error
AddMetrics_ErrorNotCounted(dProcessed, dError, dDuplicate) ==
  [processed_count |-> metrics.processed_count + dProcessed,
   error_count |-> metrics.error_count,
   duplicate_count |-> metrics.duplicate_count + dDuplicate]

\* the metrics after a step of process_message
AddMetrics(dProcessed, dError, dDuplicate) ==
  [processed_count |-> metrics.processed_count + dProcessed,
   error_count |-> metrics.error_count + dError,
   duplicate_count |-> metrics.duplicate_count + dDuplicate]

(***************************************************************************)
(* EventRepository.upsert_event: the INSERT ... ON CONFLICT statement      *)
(***************************************************************************)
\* the row the INSERT adds: the columns the statement binds, as far as the
\* model follows them.  source is the message the row was inserted for: its
\* raw_text column is BeautifiedText[source], its embedding the vector of
\* embed_text(f"{title}\n\n{beautified_text}"), named by the two texts
NewRow(id, fingerprint, b, extraction) ==
  [id |-> id,
   dedupe_fingerprint |-> fingerprint,
   source_type |-> SourceType(b),
   source |-> b,
   source_url |-> SourceUrl(b),
   title |-> extraction.title,
   language |-> extraction.language,
   city |-> extraction.city,
   country |-> extraction.country,
   organizer |-> extraction.organizer,
   embedding |-> <<extraction.title, b>>,
   status |-> extraction.status,
   occurs_from |-> extraction.occurs_from,
   occurs_to |-> extraction.occurs_to,
   deadline_at |-> extraction.deadline_at,
   updated_at |-> "inserted"]

\* a variant for a table without the unique index on dedupe_fingerprint
Conflicts_NoUniqueIndex(rows, fp) == {}

\* the rows that conflict with a fingerprint
Conflicts(rows, fp) == {i \in DOMAIN rows : rows[i].dedupe_fingerprint = fp}

\* a variant of the statement that overwrites the descriptive columns too
ConflictUpdate_OverwritesAll(row, extraction) ==
  [row EXCEPT !.updated_at = "updated",
              !.status = extraction.status,
              !.occurs_from = extraction.occurs_from,
              !.occurs_to = extraction.occurs_to,
              !.deadline_at = extraction.deadline_at,
              !.title = extraction.title,
              !.city = extraction.city]

\* ON CONFLICT (dedupe_fingerprint) DO UPDATE SET updated_at = NOW(), status,
\* occurs_from, occurs_to, deadline_at = EXCLUDED.*
ConflictUpdate(row, extraction) ==
  [row EXCEPT !.updated_at = "updated",
              !.status = extraction.status,
              !.occurs_from = extraction.occurs_from,
              !.occurs_to = extraction.occurs_to,
              !.deadline_at = extraction.deadline_at]

\* a variant whose RETURNING clause reports every write as an insert
fetchrow_AlwaysNew(rows, fingerprint, b, extraction) ==
  IF Conflicts(rows, fingerprint) # {}
  THEN [rows |-> [i \in DOMAIN rows |->
                    IF i \in Conflicts(rows, fingerprint)
                    THEN ConflictUpdate(rows[i], extraction) ELSE rows[i]],
        fingerprint |-> fingerprint,
        event_id |-> rows[CHOOSE i \in Conflicts(rows, fingerprint) : TRUE].id,
        is_new |-> TRUE]
  ELSE [rows |-> Append(rows, NewRow(Len(rows) + 1, fingerprint, b, extraction)),
        fingerprint |-> fingerprint,
        event_id |-> Len(rows) + 1,
        is_new |-> TRUE]

\* db_pool.fetchrow(query, ..., fingerprint): the statement's effect and its
\* RETURNING id, (xmax = 0) as is_new
fetchrow(rows, fingerprint, b, extraction) ==
  IF Conflicts(rows, fingerprint) # {}
  THEN [rows |-> [i \in DOMAIN rows |->
                    IF i \in Conflicts(rows, fingerprint)
                    THEN ConflictUpdate(rows[i], extraction) ELSE rows[i]],
        fingerprint |-> fingerprint,
        event_id |-> rows[CHOOSE i \in Conflicts(rows, fingerprint) : TRUE].id,
        is_new |-> FALSE]
  ELSE [rows |-> Append(rows, NewRow(Len(rows) + 1, fingerprint, b, extraction)),
        fingerprint |-> fingerprint,
        event_id |-> Len(rows) + 1,
        is_new |-> TRUE]

\* EventRepository.upsert_event
upsert_event(rows, b, extraction) ==
  fetchrow(rows,
           generate_fingerprint(SourceUrl(b), extraction.title, BeautifiedText[b]),
           b, extraction)

\* vector_store.index_event and the rest of process_message: self.index.insert(doc)
\* returns, or it raises
IndexEvent(m, t, event_id) ==
  \/ /\ vector_index' = AddOne(vector_index, event_id)
     /\ tasks' = [tasks EXCEPT ![m] =
          ReturnTrue([t EXCEPT !.calls = @ \union {"index_event"}], "completed")]
     /\ metrics' = AddMetrics(1, 0, 0)
  \/ /\ vector_index' = vector_index
     /\ tasks' = [tasks EXCEPT ![m] =
          ReturnFalse([t EXCEPT !.calls = @ \union {"index_event"}], "index_failed")]
     /\ metrics' = AddMetrics(0, 1, 0)

(***************************************************************************)
(* Init                                                                    *)
(***************************************************************************)
Init ==
  /\ running = TRUE
  /\ metrics = [processed_count |-> 0, error_count |-> 0, duplicate_count |-> 0]
  /\ queue = Msgs
  /\ body \in [Msgs -> QueueBodyIds]
  /\ \A m \in Msgs : m > 1 => body[m - 1] < body[m]
  /\ receive_count = [m \in Msgs |-> 0]
  /\ pollpc = "receive"
  /\ deliveries = 0
  /\ messages = {}
  /\ tasks = [m \in Msgs |-> IdleTask]
  /\ events = <<>>
  /\ event_categories = {}
  /\ vector_index = {}
  /\ link_calls = {}
  /\ new_returns = {}
  /\ call = NoCall

(***************************************************************************)
(* poll_messages                                                           *)
(***************************************************************************)
\* receive_message returns a batch; gather starts one process_message per
\* message, and each runs until its first await
ReceiveMessage(batch) ==
  /\ running
  /\ pollpc = "receive"
  /\ deliveries + Cardinality(batch) <= MaxDeliveries
  /\ batch # {}
  /\ batch \subseteq queue
  /\ Cardinality(batch) <= sqs_batch_size
  /\ pollpc' = "gather"
  /\ deliveries' = deliveries + Cardinality(batch)
  /\ messages' = batch
  /\ receive_count' = [m \in Msgs |-> IF m \in batch THEN receive_count[m] + 1
                                      ELSE receive_count[m]]
  /\ tasks' = [m \in Msgs |-> IF m \in batch THEN StartedTask(body[m]) ELSE IdleTask]
  /\ metrics' = AddMetrics(0, Cardinality({m \in batch : ~ParseOk(body[m])}), 0)
  /\ UNCHANGED <<call, running, queue, body, events, event_categories, vector_index,
                 link_calls, new_returns>>

\* a variant that collects every message of the batch
EntriesToDelete_EveryMessage == messages

\* a variant that collects the messages whose result is not True
EntriesToDelete_NotTrue == {m \in messages : tasks[m].result # "True"}

\* the messages whose result is True
EntriesToDelete == {m \in messages : tasks[m].result = "True"}

\* a variant that deletes the whole batch, whatever the results
DeleteMessageBatch_WholeBatch(failed) ==
  /\ pollpc = "gather"
  /\ \A m \in messages : tasks[m].pc = "done"
  /\ failed \subseteq messages
  /\ queue' = queue \ (messages \ failed)
  /\ pollpc' = "receive"
  /\ messages' = {}
  /\ tasks' = [m \in Msgs |-> IdleTask]
  /\ UNCHANGED <<call, running, metrics, body, receive_count, deliveries, events,
                 event_categories, vector_index, link_calls, new_returns>>

\* gather has returned: the entries are collected and delete_message_batch is
\* called; failed are the entries it reports as Failed (all of them when it
\* raises ClientError)
DeleteMessageBatch(failed) ==
  /\ pollpc = "gather"
  /\ \A m \in messages : tasks[m].pc = "done"
  /\ failed \subseteq EntriesToDelete
  /\ queue' = queue \ (EntriesToDelete \ failed)
  /\ pollpc' = "receive"
  /\ messages' = {}
  /\ tasks' = [m \in Msgs |-> IdleTask]
  /\ UNCHANGED <<call, running, metrics, body, receive_count, deliveries, events,
                 event_categories, vector_index, link_calls, new_returns>>

(***************************************************************************)
(* process_message, one step per await                                     *)
(***************************************************************************)
\* llm.achat of the current attempt ends with outcome o, and extract_event_data
\* runs on to the llm.achat of the next attempt (after asyncio.sleep(backoff),
\* during which the coroutine touches nothing) or to its end; then
\* process_message runs on to its next await: embedding_service.embed_text
\* (which has no await) returns or raises
LLMResponds(m, o) ==
  LET t == tasks[m]
      cls == AttemptClasses[o]
      counted == [t EXCEPT !.n_rate = IF cls = "rate" THEN @ + 1 ELSE @,
                           !.n_soft = IF cls \in {"json", "other"} THEN @ + 1 ELSE @]
      \* extract_event_data has returned the extraction: its locals are gone
      returned == [t EXCEPT !.extraction = o, !.attempt = 0, !.backoff = 0,
                            !.n_rate = 0, !.n_soft = 0]
  IN /\ pollpc = "gather"
     /\ m \in messages
     /\ t.pc = "achat"
     /\ IF cls = "ok"
        THEN \/ /\ tasks' = [tasks EXCEPT ![m] =
                       [returned EXCEPT !.pc = "upsert",
                                        !.calls = @ \union {"embed_text", "upsert_event"}]]
                   /\ metrics' = metrics
                \/ /\ tasks' = [tasks EXCEPT ![m] =
                       ReturnFalse([returned EXCEPT !.calls = @ \union {"embed_text"}],
                                   "embed_failed")]
                   /\ metrics' = AddMetrics(0, 1, 0)
        ELSE IF AfterFailure(cls, t.attempt) = "retry"
             THEN /\ tasks' = [tasks EXCEPT ![m] =
                       [counted EXCEPT !.attempt = @ + 1,
                                       !.backoff = Backoff(cls, t.attempt)]]
                  /\ metrics' = metrics
        ELSE IF AfterFailure(cls, t.attempt) = "raise"
             THEN /\ tasks' = [tasks EXCEPT ![m] = ReturnFalse(counted, "rate_limit")]
                  /\ metrics' = AddMetrics(0, 1, 0)
        ELSE /\ tasks' = [tasks EXCEPT ![m] = ReturnTrue(counted, "no_extraction")]
             /\ metrics' = AddMetrics(0, 1, 0)
     /\ UNCHANGED <<call, running, queue, body, receive_count, pollpc, deliveries, messages,
                    events, event_categories, vector_index, link_calls, new_returns>>

\* db_pool.fetchrow of upsert_event returns (db_ok) or raises; then the rest of
\* process_message up to its next await
UpsertReturns(m, db_ok) ==
  /\ pollpc = "gather"
  /\ m \in messages
  /\ tasks[m].pc = "upsert"
  /\ IF ~db_ok
     THEN /\ tasks' = [tasks EXCEPT ![m] = ReturnFalse(tasks[m], "storage_failed")]
          /\ metrics' = AddMetrics(0, 1, 0)
          /\ UNCHANGED <<events, vector_index, link_calls, new_returns>>
     ELSE \E e \in {Extraction(tasks[m].extraction, categories)} :
          \E r \in {upsert_event(events, body[m], e)} :
          \E t \in {[tasks[m] EXCEPT !.event_id = r.event_id, !.is_new = r.is_new]} :
            /\ events' = r.rows
            /\ new_returns' = IF r.is_new THEN AddOne(new_returns, r.fingerprint)
                               ELSE new_returns
            /\ IF ~r.is_new
               THEN /\ tasks' = [tasks EXCEPT ![m] = ReturnTrue(t, "duplicate")]
                    /\ metrics' = AddMetrics(1, 0, 1)
                    /\ UNCHANGED <<vector_index, link_calls>>
               ELSE IF e.categories_slugs # <<>>
                    THEN /\ tasks' = [tasks EXCEPT ![m] =
                              [t EXCEPT !.pc = "link_fetch",
                                        !.calls = @ \union {"link_categories"}]]
                         /\ link_calls' = AddOne(link_calls, r.event_id)
                         /\ metrics' = metrics
                         /\ vector_index' = vector_index
                    ELSE /\ IndexEvent(m, t, r.event_id)
                         /\ link_calls' = link_calls
  /\ UNCHANGED <<call, running, queue, body, receive_count, pollpc, deliveries, messages,
                 event_categories>>

\* the query without its WHERE clause on the categories table
FetchCategories_AnySlug(slugs) == slugs

\* SELECT id, slug FROM categories WHERE slug = ANY($1)
FetchCategories(slugs) == FilterSeq(slugs, CategoryTable)

\* link_categories: db_pool.fetch returns the category rows, or raises
LinkFetchReturns(m, db_ok) ==
  LET t == tasks[m]
      e == Extraction(t.extraction, categories)
  IN /\ pollpc = "gather"
     /\ m \in messages
     /\ t.pc = "link_fetch"
     /\ IF ~db_ok
        THEN /\ tasks' = [tasks EXCEPT ![m] = ReturnFalse(t, "link_failed")]
             /\ metrics' = AddMetrics(0, 1, 0)
             /\ vector_index' = vector_index
        ELSE IF FetchCategories(e.categories_slugs) = <<>>
             THEN IndexEvent(m, t, t.event_id)
        ELSE /\ tasks' = [tasks EXCEPT ![m] = [t EXCEPT !.pc = "link_exec", !.link_i = 1]]
             /\ metrics' = metrics
             /\ vector_index' = vector_index
     /\ UNCHANGED <<call, running, queue, body, receive_count, pollpc, deliveries, messages,
                    events, event_categories, link_calls, new_returns>>

\* link_categories: the INSERT ... ON CONFLICT DO NOTHING of one category
\* returns, or raises and is logged; after the last one, index_event
LinkExecReturns(m, db_ok) ==
  LET t == tasks[m]
      e == Extraction(t.extraction, categories)
      cats == FetchCategories(e.categories_slugs)
  IN /\ pollpc = "gather"
     /\ m \in messages
     /\ t.pc = "link_exec"
     /\ event_categories' = IF db_ok
                            THEN event_categories \union {<<t.event_id, cats[t.link_i]>>}
                            ELSE event_categories
     /\ IF t.link_i < Len(cats)
        THEN /\ tasks' = [tasks EXCEPT ![m].link_i = @ + 1]
             /\ metrics' = metrics
             /\ vector_index' = vector_index
        ELSE IndexEvent(m, t, t.event_id)
     /\ UNCHANGED <<call, running, queue, body, receive_count, pollpc, deliveries, messages,
                    events, link_calls, new_returns>>

Next ==
  \/ \E batch \in SUBSET Msgs : ReceiveMessage(batch)
  \/ \E failed \in SUBSET Msgs : DeleteMessageBatch(failed)
  \/ \E m \in Msgs, o \in LLMOutcomeIds : LLMResponds(m, o)
  \/ \E m \in Msgs, db_ok \in BOOLEAN : UpsertReturns(m, db_ok)
  \/ \E m \in Msgs, db_ok \in BOOLEAN : LinkFetchReturns(m, db_ok)
  \/ \E m \in Msgs, db_ok \in BOOLEAN : LinkExecReturns(m, db_ok)

Spec == Init /\ [][Next]_vars

(***************************************************************************)
(* poll_messages with its failures, and stop()                             *)
(***************************************************************************)
\* one assignment of bodies to the messages: the m-th message has the m-th
\* body that can be on the queue
RECURSIVE NthBody(_, _)
NthBody(ids, n) ==
  LET least == CHOOSE b \in ids : \A other \in ids : b <= other
  IN IF n = 1 THEN least ELSE NthBody(ids \ {least}, n - 1)

PollInit ==
  /\ Init
  /\ body = [m \in Msgs |-> NthBody(QueueBodyIds, m)]

\* an exception that ends the loop
ReceiveRaises_EndsLoop ==
  /\ running
  /\ pollpc = "receive"
  /\ pollpc' = "exited"
  /\ UNCHANGED <<call, running, metrics, queue, body, receive_count, deliveries, messages,
                 tasks, events, event_categories, vector_index, link_calls, new_returns>>

\* receive_message raises (ClientError or another Exception): the error is
\* logged and the loop is in asyncio.sleep(5)
ReceiveRaises ==
  /\ running
  /\ pollpc = "receive"
  /\ pollpc' = "sleep"
  /\ UNCHANGED <<call, running, metrics, queue, body, receive_count, deliveries, messages,
                 tasks, events, event_categories, vector_index, link_calls, new_returns>>

\* gather has returned and delete_message_batch raises an exception that is
\* not a ClientError: nothing is deleted, and the loop is in asyncio.sleep(5)
DeleteRaises ==
  /\ pollpc = "gather"
  /\ \A m \in messages : tasks[m].pc = "done"
  /\ EntriesToDelete # {}
  /\ pollpc' = "sleep"
  /\ messages' = {}
  /\ tasks' = [m \in Msgs |-> IdleTask]
  /\ UNCHANGED <<call, running, metrics, queue, body, receive_count, deliveries, events,
                 event_categories, vector_index, link_calls, new_returns>>

\* asyncio.sleep(5) returns: back to the test of the while loop
SleepReturns ==
  /\ pollpc = "sleep"
  /\ pollpc' = "receive"
  /\ UNCHANGED <<call, running, metrics, queue, body, receive_count, deliveries, messages,
                 tasks, events, event_categories, vector_index, link_calls, new_returns>>

\* stop(), run as a task from the signal handler: self.running = False
Stop ==
  /\ running
  /\ running' = FALSE
  /\ UNCHANGED <<call, metrics, queue, body, receive_count, pollpc, deliveries, messages,
                 tasks, events, event_categories, vector_index, link_calls, new_returns>>

\* while self.running: is false, poll_messages returns
PollExits ==
  /\ ~running
  /\ pollpc = "receive"
  /\ pollpc' = "exited"
  /\ UNCHANGED <<call, running, metrics, queue, body, receive_count, deliveries, messages,
                 tasks, events, event_categories, vector_index, link_calls, new_returns>>

PollNext ==
  \/ \E batch \in SUBSET Msgs : ReceiveMessage(batch)
  \/ \E failed \in SUBSET Msgs : DeleteMessageBatch(failed)
  \/ \E m \in Msgs, o \in LLMOutcomeIds : LLMResponds(m, o)
  \/ \E m \in Msgs, db_ok \in BOOLEAN : UpsertReturns(m, db_ok)
  \/ \E m \in Msgs, db_ok \in BOOLEAN : LinkFetchReturns(m, db_ok)
  \/ \E m \in Msgs, db_ok \in BOOLEAN : LinkExecReturns(m, db_ok)
  \/ ReceiveRaises
  \/ DeleteRaises
  \/ SleepReturns
  \/ Stop
  \/ PollExits

PollSpec == PollInit /\ [][PollNext]_vars

(***************************************************************************)
(* The functions run on their own: one call per behaviour, on arguments    *)
(* drawn from the sets above, with the consumer idle                       *)
(***************************************************************************)
CallInit == Init /\ body = [m \in Msgs |-> m]

\* the consumer's variables, which a call on its own leaves alone
consumer_vars ==
  <<running, metrics, queue, body, receive_count, pollpc, deliveries, messages, tasks,
    vector_index, link_calls, new_returns>>

\* EventRepository.generate_fingerprint(source_url, title, raw_text)
CallGenerateFingerprint(source_url, title, raw_text) ==
  /\ call = NoCall
  /\ call' = [op |-> "generate_fingerprint", source_url |-> source_url, title |-> title,
               raw_text |-> raw_text,
               result |-> generate_fingerprint(source_url, title, raw_text)]
  /\ UNCHANGED <<consumer_vars, events, event_categories>>

\* process_message(message) for a message with body b, up to its first await
CallProcessMessage(b) ==
  /\ call = NoCall
  /\ call' = [op |-> "process_message", body |-> b, task |-> StartedTask(b)]
  /\ UNCHANGED <<consumer_vars, events, event_categories>>

\* beautify_text(text)
CallBeautifyText(text) ==
  /\ call = NoCall
  /\ call' = [op |-> "beautify_text", text |-> text, result |-> beautify_text(text)]
  /\ UNCHANGED <<consumer_vars, events, event_categories>>

\* how many link_categories calls one behaviour makes
MaxLinkCalls == 2

\* the arguments of link_categories
LinkEventIds == {1, 2}
LinkSlugs == {<<>>, <<"c1">>, <<"zz">>, <<"zz", "yy">>, <<"c2", "zz", "c1">>}

\* link_categories(event_id, category_slugs) up to its first await: it
\* returns at once when category_slugs is empty.  before is the table when
\* the call starts, prev the call before it, store_calls counts the calls of
\* db_pool.fetch and db_pool.execute, failed says an INSERT raised
CallLinkCategories(event_id, category_slugs) ==
  /\ \/ call = NoCall
     \/ /\ call.op = "link_categories"
        /\ call.pc = "returned"
        /\ call.n < MaxLinkCalls
  /\ call' = [op |-> "link_categories", event_id |-> event_id,
              category_slugs |-> category_slugs,
              pc |-> IF category_slugs = <<>> THEN "returned" ELSE "fetch",
              i |-> 0, store_calls |-> 0, failed |-> FALSE,
              before |-> event_categories,
              n |-> IF call = NoCall THEN 1 ELSE call.n + 1,
              prev |-> IF call = NoCall THEN NoCall
                       ELSE [event_id |-> call.event_id,
                             category_slugs |-> call.category_slugs,
                             failed |-> call.failed]]
  /\ UNCHANGED <<consumer_vars, events, event_categories>>

\* db_pool.fetch returns the category rows (db_ok), or raises
LinkCategoriesFetch(db_ok) ==
  /\ call.op = "link_categories"
  /\ call.pc = "fetch"
  /\ call' = [call EXCEPT !.store_calls = @ + 1,
                          !.pc = IF ~db_ok THEN "raised"
                                 ELSE IF FetchCategories(call.category_slugs) = <<>>
                                      THEN "returned"
                                 ELSE "execute",
                          !.i = IF db_ok THEN 1 ELSE 0]
  /\ UNCHANGED <<consumer_vars, events, event_categories>>

\* the INSERT ... ON CONFLICT DO NOTHING of the i-th category returns (db_ok),
\* or raises, which is logged
LinkCategoriesExecute(db_ok) ==
  /\ call.op = "link_categories"
  /\ call.pc = "execute"
  /\ \E cats \in {FetchCategories(call.category_slugs)} :
       /\ event_categories' = IF db_ok
                              THEN event_categories \union {<<call.event_id, cats[call.i]>>}
                              ELSE event_categories
       /\ call' = [call EXCEPT !.store_calls = @ + 1,
                               !.failed = @ \/ ~db_ok,
                               !.i = @ + 1,
                               !.pc = IF call.i < Len(cats) THEN "execute" ELSE "returned"]
  /\ UNCHANGED <<consumer_vars, events>>

(***************************************************************************)
(* search_events                                                           *)
(***************************************************************************)
\* how many filters a request supplies at most
MaxFilters == 2

\* timestamps, in their order
Dates == {"d0", "d1", "d2", "d3"}
DateOrd == [d \in Dates |-> CASE d = "d0" -> 0 [] d = "d1" -> 1 [] d = "d2" -> 2 [] d = "d3" -> 3]

\* the rows of the events table at the time of the search, with a NULL in
\* every nullable column of some row; words stands for what
\* to_tsvector('simple', title || ' ' || raw_text) holds
EventsTable ==
  <<[id |-> 1, status |-> "active", city |-> "Kyiv", country |-> "UA", language |-> "uk",
     is_remote |-> "False", posted_at |-> "d1", deadline_at |-> "d2",
     occurs_from |-> "d1", occurs_to |-> "d2", words |-> {"w"}],
    [id |-> 2, status |-> "active", city |-> "Lviv", country |-> "UA", language |-> "en",
     is_remote |-> "True", posted_at |-> "d2", deadline_at |-> NULL,
     occurs_from |-> "d2", occurs_to |-> "d3", words |-> {}],
    [id |-> 3, status |-> "cancelled", city |-> "Kyiv", country |-> "UA", language |-> "uk",
     is_remote |-> "False", posted_at |-> "d1", deadline_at |-> "d2",
     occurs_from |-> "d1", occurs_to |-> "d2", words |-> {"w"}],
    [id |-> 4, status |-> "active", city |-> NULL, country |-> NULL, language |-> "uk",
     is_remote |-> NULL, posted_at |-> NULL, deadline_at |-> "d3",
     occurs_from |-> NULL, occurs_to |-> NULL, words |-> {"w"}],
    [id |-> 5, status |-> "active", city |-> "Kyiv", country |-> "UA", language |-> "uk",
     is_remote |-> "True", posted_at |-> "d3", deadline_at |-> "d1",
     occurs_from |-> "d3", occurs_to |-> NULL, words |-> {"w", "v"}],
    [id |-> 6, status |-> "active", city |-> "Kyiv", country |-> "UA", language |-> "en",
     is_remote |-> "False", posted_at |-> "d2", deadline_at |-> "d2",
     occurs_from |-> "d2", occurs_to |-> "d2", words |-> {}]>>

\* the rows of event_categories at the time of the search
EventCategoriesTable ==
  {<<1, "c1">>, <<1, "c2">>, <<2, "c1">>, <<3, "c1">>, <<5, "c2">>, <<6, "c2">>}

\* SearchRequest: the values of its fields ("" is the empty string of a query
\* parameter given without a value)
SearchRequestValues ==
  [q : {NULL, "w"}, city : {NULL, "", "Kyiv"}, country : {NULL, "UA"},
   language : {NULL, "uk"}, is_remote : {NULL, "True", "False"},
   category : {<<>>, <<"c1">>, <<"c1", "c2">>},
   posted_from : {NULL, "d2"}, posted_to : {NULL, "d2"},
   occurs_from : {NULL, "d1", "d2"}, occurs_to : {NULL, "d2"},
   deadline_before : {NULL, "d2"}, deadline_after : {NULL, "d2"},
   sort_by : {"posted_at", "deadline_at", "occurs_from"}, order : {"asc", "desc"},
   page : {1, 2, 3}, size : {1, 2}]

FilterFields ==
  {"q", "city", "country", "language", "is_remote", "category", "posted_from",
   "posted_to", "occurs_from", "occurs_to", "deadline_before", "deadline_after"}

\* the default of every filter field of SearchRequest
IsDefault(request, field) ==
  IF field = "category" THEN request[field] = <<>> ELSE request[field] = NULL

SearchRequests ==
  {request \in SearchRequestValues :
     Cardinality({f \in FilterFields : ~IsDefault(request, f)}) <= MaxFilters}

\* Python's truth value of an Optional field: None and '' are false
Truthy(v) == v # NULL /\ v # ""

\* the query that starts without a clause on status
EmptyQuery_AnyStatus == [where_clauses |-> <<>>, params |-> <<>>, param_count |-> 0]

\* the query under construction: where_clauses, params, param_count
\* where_clauses = ["status = 'active'"]; params = []; param_count = 0
EmptyQuery ==
  [where_clauses |-> <<[column |-> "status", op |-> "=", literal |-> "active"]>>,
   params |-> <<>>, param_count |-> 0]

\* param_count += 1; params.append(value); where_clauses.append(f"{column} {op} ${param_count}")
AddClause(query, cond, column, op, value) ==
  IF cond
  THEN [where_clauses |-> Append(query.where_clauses,
                                 [column |-> column, op |-> op,
                                  placeholder |-> query.param_count + 1]),
        params |-> Append(query.params, value),
        param_count |-> query.param_count + 1]
  ELSE query

\* the date overlap with the two parameters appended in the order of the fields
AddOccurs_ParamsInOrder(query, request) ==
  IF Truthy(request.occurs_from) /\ Truthy(request.occurs_to)
  THEN [where_clauses |-> Append(query.where_clauses,
          [op |-> "AND",
           left |-> [column |-> "occurs_from", op |-> "<=",
                     placeholder |-> query.param_count + 1],
           right |-> [column |-> "occurs_to", op |-> ">=",
                      placeholder |-> query.param_count + 2]]),
        params |-> query.params \o <<request.occurs_from, request.occurs_to>>,
        param_count |-> query.param_count + 2]
  ELSE IF Truthy(request.occurs_from)
  THEN AddClause(query, TRUE, "occurs_to", ">=", request.occurs_from)
  ELSE AddClause(query, Truthy(request.occurs_to), "occurs_from", "<=", request.occurs_to)

\* the date overlap with the numbers of its two placeholders exchanged
AddOccurs_PlaceholdersSwapped(query, request) ==
  IF Truthy(request.occurs_from) /\ Truthy(request.occurs_to)
  THEN [where_clauses |-> Append(query.where_clauses,
          [op |-> "AND",
           left |-> [column |-> "occurs_from", op |-> "<=",
                     placeholder |-> query.param_count + 2],
           right |-> [column |-> "occurs_to", op |-> ">=",
                      placeholder |-> query.param_count + 1]]),
        params |-> query.params \o <<request.occurs_to, request.occurs_from>>,
        param_count |-> query.param_count + 2]
  ELSE IF Truthy(request.occurs_from)
  THEN AddClause(query, TRUE, "occurs_to", ">=", request.occurs_from)
  ELSE AddClause(query, Truthy(request.occurs_to), "occurs_from", "<=", request.occurs_to)

\* the three branches of the date overlap of occurs_from/occurs_to
AddOccurs(query, request) ==
  IF Truthy(request.occurs_from) /\ Truthy(request.occurs_to)
  THEN [where_clauses |-> Append(query.where_clauses,
          [op |-> "AND",
           left |-> [column |-> "occurs_from", op |-> "<=",
                     placeholder |-> query.param_count + 1],
           right |-> [column |-> "occurs_to", op |-> ">=",
                      placeholder |-> query.param_count + 2]]),
        params |-> query.params \o <<request.occurs_to, request.occurs_from>>,
        param_count |-> query.param_count + 2]
  ELSE IF Truthy(request.occurs_from)
  THEN AddClause(query, TRUE, "occurs_to", ">=", request.occurs_from)
  ELSE AddClause(query, Truthy(request.occurs_to), "occurs_from", "<=", request.occurs_to)

\* where_clauses and params after the filters of the request
WhereQuery(request) ==
  LET q1 == AddClause(EmptyQuery, Truthy(request.q), "words", "@@", request.q)
      q2 == AddClause(q1, Truthy(request.city), "city", "=", request.city)
      q3 == AddClause(q2, Truthy(request.country), "country", "=", request.country)
      q4 == AddClause(q3, Truthy(request.language), "language", "=", request.language)
      q5 == AddClause(q4, request.is_remote # NULL, "is_remote", "=", request.is_remote)
      q6 == AddClause(q5, Truthy(request.posted_from), "posted_at", ">=", request.posted_from)
      q7 == AddClause(q6, Truthy(request.posted_to), "posted_at", "<=", request.posted_to)
      q8 == AddClause(q7, Truthy(request.deadline_before), "deadline_at", "<=",
                      request.deadline_before)
      q9 == AddClause(q8, Truthy(request.deadline_after), "deadline_at", ">=",
                      request.deadline_after)
  IN AddOccurs(q9, request)

\* base_query: the WHERE clause, and with a category filter the JOIN with
\* c.slug = ANY(${param_count + 1})
BaseQuery(request) ==
  LET query == WhereQuery(request)
  IN IF request.category # <<>>
     THEN [where_clauses |-> query.where_clauses,
           slug_any |-> query.param_count + 1,
           params |-> Append(query.params, request.category),
           param_count |-> query.param_count + 1]
     ELSE [where_clauses |-> query.where_clauses, slug_any |-> 0,
           params |-> query.params, param_count |-> query.param_count]

\* SQL: a comparison with NULL is not true
RECURSIVE ClauseHolds(_, _, _)
ClauseHolds(row, clause, params) ==
  IF clause.op = "AND"
  THEN ClauseHolds(row, clause.left, params) /\ ClauseHolds(row, clause.right, params)
  ELSE IF "literal" \in DOMAIN clause
  THEN row[clause.column] = clause.literal
  ELSE IF clause.op = "@@"
  THEN params[clause.placeholder] \in row.words
  ELSE IF row[clause.column] = NULL
  THEN FALSE
  ELSE IF clause.op = "="
  THEN row[clause.column] = params[clause.placeholder]
  ELSE IF clause.op = ">="
  THEN DateOrd[row[clause.column]] >= DateOrd[params[clause.placeholder]]
  ELSE DateOrd[row[clause.column]] <= DateOrd[params[clause.placeholder]]

\* the ids of the events that pass the WHERE clause
WhereRows(query) ==
  {id \in DOMAIN EventsTable :
     \A i \in DOMAIN query.where_clauses :
       ClauseHolds(EventsTable[id], query.where_clauses[i], query.params)}

\* e.* of the rows of events e JOIN event_categories ec JOIN categories c with
\* c.slug = ANY($n): <<id, k>> is the k-th row with the columns of event id,
\* one for each link of the event to a category of the array
JoinedRows(query) ==
  {<<id, k>> \in WhereRows(query) \X (1..Cardinality(CategoryTable)) :
     k <= Cardinality({slug \in {query.params[query.slug_any][i] :
                                   i \in DOMAIN query.params[query.slug_any]} :
                         <<id, slug>> \in EventCategoriesTable})}

\* the rows without SELECT DISTINCT
Distinct_EveryRow(rows) == rows

\* SELECT DISTINCT: one row of each
Distinct(rows) == {<<row[1], 1>> : row \in rows}

\* the rows of base_query
BaseRows(query) ==
  IF query.slug_any # 0
  THEN Distinct(JoinedRows(query))
  ELSE {<<id, 1>> : id \in WhereRows(query)}

\* the ids of the rows of the final query: the rows of base_query, one per
\* group of GROUP BY e.id, ...
Filtered(query) == {row[1] : row \in BaseRows(query)}

\* ORDER BY {sort_by} {order}: NULLs last in ascending and first in descending
\* order; a before b is possible in the result
MayPrecede(a, b, sort_by, order) ==
  LET ka == EventsTable[a][sort_by]
      kb == EventsTable[b][sort_by]
      leq == IF kb = NULL THEN TRUE
             ELSE IF ka = NULL THEN FALSE
             ELSE DateOrd[ka] <= DateOrd[kb]
      geq == IF ka = NULL THEN TRUE
             ELSE IF kb = NULL THEN FALSE
             ELSE DateOrd[ka] >= DateOrd[kb]
  IN IF order = "asc" THEN leq ELSE geq

\* the orders in which the sorted rows can come (rows with equal keys in any order)
SortedRows(ids, sort_by, order) ==
  {rows \in [1..Cardinality(ids) -> ids] :
     /\ \A i, j \in DOMAIN rows : i # j => rows[i] # rows[j]
     /\ \A i, j \in DOMAIN rows : i < j => MayPrecede(rows[i], rows[j], sort_by, order)}

\* the page with OFFSET page * size
Page_OffsetByPage(rows, page, size) ==
  SubSeq(rows, page * size + 1, Min((page + 1) * size, Len(rows)))

\* LIMIT size OFFSET (page - 1) * size
Page(rows, page, size) ==
  SubSeq(rows, (page - 1) * size + 1, Min(page * size, Len(rows)))

\* search_events(request): the count query with its parameters, and the final
\* query with LIMIT ${param_count + 1} OFFSET ${param_count + 2} and its parameters
CallSearchEvents(request) ==
  /\ call = NoCall
  /\ \E query \in {BaseQuery(request)} :
     \E ids \in {Filtered(query)} :
     \E rows \in SortedRows(ids, request.sort_by, request.order) :
       call' = [op |-> "search_events", request |-> request,
                where_clauses |-> query.where_clauses, slug_any |-> query.slug_any,
                count_params |-> query.params,
                limit |-> query.param_count + 1, offset |-> query.param_count + 2,
                params |-> query.params \o <<request.size, (request.page - 1) * request.size>>,
                filtered |-> ids,
                events |-> Page(rows, request.page, request.size),
                total |-> Cardinality(BaseRows(query))]
  /\ UNCHANGED <<consumer_vars, events, event_categories>>

(***************************************************************************)
(* vector_store.search_similar                                             *)
(***************************************************************************)
\* the documents of the vector index at the time of the search: the metadata
\* index_event stored, and score, the similarity of the document to the
\* query in hundredths
IndexedDocs ==
  <<[id |-> 1, city |-> "Kyiv", country |-> "UA", language |-> "uk", is_remote |-> "False",
     posted_at |-> "d1", categories_slugs |-> <<"c1", "c2">>, score |-> 90],
    [id |-> 2, city |-> "Kyiv", country |-> "UA", language |-> "uk", is_remote |-> "False",
     posted_at |-> "d2", categories_slugs |-> <<"c1">>, score |-> 80],
    [id |-> 3, city |-> "Kyiv", country |-> "UA", language |-> "uk", is_remote |-> "True",
     posted_at |-> "d2", categories_slugs |-> <<"c2">>, score |-> 40],
    [id |-> 4, city |-> NULL, country |-> NULL, language |-> "en", is_remote |-> NULL,
     posted_at |-> NULL, categories_slugs |-> <<>>, score |-> 30],
    [id |-> 5, city |-> "Lviv", country |-> "UA", language |-> "en", is_remote |-> "True",
     posted_at |-> "d3", categories_slugs |-> <<"c1">>, score |-> 20]>>

\* QueryIntent: the values of its fields
QueryIntents ==
  [city : {NULL, "Kyiv"}, country : {NULL, "UA"}, language : {NULL, "uk"},
   is_remote : {NULL, "True", "False"}, date_from : {NULL, "d2"}, date_to : {NULL, "d2"},
   categories_slugs : {<<>>, <<"c1">>, <<"c1", "c2">>}, top_k : {1, 12},
   user_query_rewritten : {"rewritten"}]

\* the top_k of a request
TopKs == {2, 12}

\* an Optional[QueryIntent]: the empty set is None
OptionalIntents == {{}} \union {{intent} : intent \in QueryIntents}

\* filters.append(MetadataFilter(key, value, operator)) if cond
AddFilter(filters, cond, key, value, operator) ==
  IF cond THEN Append(filters, [key |-> key, value |-> value, operator |-> operator])
  ELSE filters

\* for cat in intent.categories_slugs: filters.append(MetadataFilter(
\* "categories_slugs", cat, CONTAINS))
RECURSIVE AddCategoryFilters(_, _)
AddCategoryFilters(filters, categories_slugs) ==
  IF categories_slugs = <<>> THEN filters
  ELSE AddCategoryFilters(
         Append(filters, [key |-> "categories_slugs", value |-> Head(categories_slugs),
                          operator |-> "CONTAINS"]),
         Tail(categories_slugs))

\* the list filters search_similar builds from the intent
MetadataFilterList(intent) ==
  LET f1 == AddFilter(<<>>, Truthy(intent.city), "city", intent.city, "EQ")
      f2 == AddFilter(f1, Truthy(intent.country), "country", intent.country, "EQ")
      f3 == AddFilter(f2, Truthy(intent.language), "language", intent.language, "EQ")
      f4 == AddFilter(f3, intent.is_remote # NULL, "is_remote", intent.is_remote, "EQ")
      f5 == AddCategoryFilters(f4, intent.categories_slugs)
      f6 == AddFilter(f5, Truthy(intent.date_from), "posted_at", intent.date_from, "GTE")
  IN AddFilter(f6, Truthy(intent.date_to), "posted_at", intent.date_to, "LTE")

\* MetadataFilters(filters=filters, condition=FilterCondition.AND) if filters
\* else None
MetadataFilters(optional_intent) ==
  IF optional_intent = {} THEN <<>>
  ELSE MetadataFilterList(CHOOSE intent \in optional_intent : TRUE)

\* one MetadataFilter on the metadata of a document
FilterHolds(doc, filter) ==
  IF filter.operator = "CONTAINS"
  THEN \E i \in DOMAIN doc[filter.key] : doc[filter.key][i] = filter.value
  ELSE IF doc[filter.key] = NULL
  THEN FALSE
  ELSE IF filter.operator = "EQ"
  THEN doc[filter.key] = filter.value
  ELSE IF filter.operator = "GTE"
  THEN DateOrd[doc[filter.key]] >= DateOrd[filter.value]
  ELSE DateOrd[doc[filter.key]] <= DateOrd[filter.value]

\* the documents the retriever may return: FilterCondition.AND of the filters
NodesMatching(filters) ==
  {id \in DOMAIN IndexedDocs :
     \A i \in DOMAIN filters : FilterHolds(IndexedDocs[id], filters[i])}

\* retriever.aretrieve: the similarity_top_k documents of the set with the
\* highest scores, in descending order of score
RECURSIVE Retrieve(_, _)
Retrieve(ids, top_k) ==
  IF ids = {} \/ top_k = 0 THEN <<>>
  ELSE LET best == CHOOSE id \in ids :
                     \A other \in ids : IndexedDocs[id].score >= IndexedDocs[other].score
       IN <<best>> \o Retrieve(ids \ {best}, top_k - 1)

\* search_similar(query, intent, top_k)
CallSearchSimilar(optional_intent, top_k) ==
  /\ call = NoCall
  /\ \E filters \in {MetadataFilters(optional_intent)} :
       call' = [op |-> "search_similar", intent |-> optional_intent, top_k |-> top_k,
                filters |-> filters,
                matched |-> NodesMatching(filters),
                results |-> Retrieve(NodesMatching(filters), top_k)]
  /\ UNCHANGED <<consumer_vars, events, event_categories>>

(***************************************************************************)
(* api/app.py: calculate_match_scores                                      *)
(***************************************************************************)
\* how many events the list given to calculate_match_scores holds at most
MaxHits == 2

\* str.lower() of the city names
CityLower(city) ==
  CASE city = "Kyiv" -> "kyiv"
    [] city = "KYIV" -> "kyiv"
    [] city = "Lviv" -> "lviv"
    [] OTHER -> city

\* score: Optional[float] = None, a score being in hundredths
NoScore == -1

\* the events a list is made of: EventSearchResult with its score in
\* hundredths, with and without city, categories, is_remote and score
Candidates ==
  {[id |-> 1, city |-> "Kyiv", language |-> "uk", categories_slugs |-> <<"c1", "c2">>,
    is_remote |-> "False", score |-> 90],
   [id |-> 2, city |-> "Lviv", language |-> "en", categories_slugs |-> <<"c2">>,
    is_remote |-> "True", score |-> 50],
   [id |-> 3, city |-> NULL, language |-> "en", categories_slugs |-> <<>>,
    is_remote |-> NULL, score |-> 80],
   [id |-> 4, city |-> "Kyiv", language |-> "uk", categories_slugs |-> <<"c1">>,
    is_remote |-> "True", score |-> 0],
   [id |-> 5, city |-> "Lviv", language |-> "en", categories_slugs |-> <<"c2">>,
    is_remote |-> "False", score |-> NoScore]}

EventLists == UNION {[1..n -> Candidates] : n \in 0..MaxHits}

\* profile_inline: keys are the keys of the dict, the other fields their
\* values (of a key that is absent, a fixed value that is never read)
Profiles ==
  {profile \in [keys : SUBSET {"city", "languages", "preferred_categories",
                               "remote_preference"},
                city : {"KYIV"},
                languages : {<<>>, <<"uk">>, <<"en">>},
                preferred_categories : {<<"c1">>},
                remote_preference : {"remote", "onsite", "any"}] :
     /\ "languages" \notin profile.keys => profile.languages = <<>>
     /\ "remote_preference" \notin profile.keys => profile.remote_preference = "any"}

\* a score as a fraction
Ratio(num, den) == [num |-> num, den |-> den]

\* match_score and factors after the four factors, in tenths
\* location
LocationFactor(event, profile, acc) ==
  IF "city" \in profile.keys /\ Truthy(event.city)
  THEN [match_score |-> acc.match_score
                          + (IF CityLower(event.city) = CityLower(profile.city)
                             THEN 3 ELSE 0),
        factors |-> acc.factors + 3]
  ELSE acc

\* language
LanguageFactor(event, profile, acc) ==
  IF "languages" \in profile.keys /\ Truthy(event.language)
  THEN [match_score |-> acc.match_score
                          + (IF \E i \in DOMAIN profile.languages :
                                  profile.languages[i] = event.language
                             THEN 2 ELSE 0),
        factors |-> acc.factors + 2]
  ELSE acc

\* category
CategoryFactor(event, profile, acc) ==
  IF "preferred_categories" \in profile.keys /\ event.categories_slugs # <<>>
  THEN [match_score |-> acc.match_score
                          + (IF \E i \in DOMAIN event.categories_slugs,
                                   j \in DOMAIN profile.preferred_categories :
                                  event.categories_slugs[i] = profile.preferred_categories[j]
                             THEN 3 ELSE 0),
        factors |-> acc.factors + 3]
  ELSE acc

\* remote preference
RemoteFactor(event, profile, acc) ==
  IF "remote_preference" \in profile.keys /\ event.is_remote # NULL
  THEN [match_score |-> acc.match_score
                          + (IF profile.remote_preference = "remote" /\ event.is_remote = "True"
                             THEN 2
                             ELSE IF profile.remote_preference = "onsite"
                                     /\ event.is_remote = "False"
                             THEN 2
                             ELSE IF profile.remote_preference = "any" THEN 1 ELSE 0),
        factors |-> acc.factors + 2]
  ELSE acc

Factors(event, profile) ==
  RemoteFactor(event, profile,
    CategoryFactor(event, profile,
      LanguageFactor(event, profile,
        LocationFactor(event, profile, [match_score |-> 0, factors |-> 0]))))

\* match_score / factors if factors > 0 else 0.5
Normalize(acc) ==
  IF acc.factors > 0 THEN Ratio(acc.match_score, acc.factors) ELSE Ratio(1, 2)

\* the combination that takes every score there is
Combine_AnyScore(score, profile_match) ==
  IF score # NoScore
  THEN Ratio(7 * score * profile_match.den + 300 * profile_match.num,
             1000 * profile_match.den)
  ELSE profile_match

\* if event.score: event.score * 0.7 + event.match_score * 0.3
Combine(score, profile_match) ==
  IF score # NoScore /\ score # 0
  THEN Ratio(7 * score * profile_match.den + 300 * profile_match.num,
             1000 * profile_match.den)
  ELSE profile_match

\* >= 0.7: high, >= 0.4: medium, else low
MatchTier(match_score) ==
  IF 10 * match_score.num >= 7 * match_score.den THEN "high"
  ELSE IF 10 * match_score.num >= 4 * match_score.den THEN "medium"
  ELSE "low"

\* the body of the loop: the event with match_score and match_tier set;
\* profile_match and neutral keep what the normalisation gave
ScoreEvent(event, profile) ==
  \* the six fields of the event, and the four computed
  [id |-> event.id, city |-> event.city, language |-> event.language,
   categories_slugs |-> event.categories_slugs, is_remote |-> event.is_remote,
   score |-> event.score,
   profile_match |-> Normalize(Factors(event, profile)),
   neutral |-> Factors(event, profile).factors = 0,
   match_score |-> Combine(event.score, Normalize(Factors(event, profile))),
   match_tier |-> MatchTier(Combine(event.score, Normalize(Factors(event, profile))))]

\* a >= b
RatioGeq(a, b) == a.num * b.den >= b.num * a.den

\* the list left as it is
SortByMatchScore_Unsorted(hits) == hits

\* events.sort(key=lambda x: x.match_score or 0, reverse=True): a stable sort,
\* each event goes after the events before it that are not smaller
RECURSIVE InsertByMatchScore(_, _)
InsertByMatchScore(sorted, event) ==
  IF sorted = <<>> THEN <<event>>
  ELSE IF RatioGeq(Head(sorted).match_score, event.match_score)
  THEN <<Head(sorted)>> \o InsertByMatchScore(Tail(sorted), event)
  ELSE <<event>> \o sorted

RECURSIVE SortFrom(_, _)
SortFrom(sorted, hits) ==
  IF hits = <<>> THEN sorted
  ELSE SortFrom(InsertByMatchScore(sorted, Head(hits)), Tail(hits))

SortByMatchScore(hits) == SortFrom(<<>>, hits)

calculate_match_scores(hits, profile) ==
  SortByMatchScore([i \in DOMAIN hits |-> ScoreEvent(hits[i], profile)])

\* calculate_match_scores(events, profile)
CallCalculateMatchScores(hits, profile) ==
  /\ call = NoCall
  /\ call' = [op |-> "calculate_match_scores", hits |-> hits, profile |-> profile,
              result |-> calculate_match_scores(hits, profile)]
  /\ UNCHANGED <<consumer_vars, events, event_categories>>

(***************************************************************************)
(* api/app.py: ai_search, with understand_query and synthesize_answer      *)
(***************************************************************************)
\* what the LLM does when understand_query calls it: the call raises, the
\* answer is not JSON, the JSON is not a QueryIntent, or it is the data of a
\* QueryIntent (the last one naming a category that is not known)
UnderstandResponses ==
  {[kind |-> kind, data |-> <<>>] : kind \in {"raises", "bad_json", "invalid"}}
    \union
  {[kind |-> "intent", data |-> intent] :
     intent \in {i \in QueryIntents :
                   /\ i.country = NULL /\ i.language = NULL /\ i.is_remote = NULL
                   /\ i.date_from = NULL /\ i.date_to = NULL}}
    \union
  {[kind |-> "intent",
    data |-> [city |-> NULL, country |-> NULL, language |-> NULL, is_remote |-> NULL,
              date_from |-> NULL, date_to |-> NULL, categories_slugs |-> <<"c1", "zz">>,
              top_k |-> 12, user_query_rewritten |-> "rewritten"]]}

\* an intent without filters returned where the code returns None
understand_query_DefaultIntent(response) ==
  IF response.kind = "intent"
  THEN {[response.data EXCEPT
           !.categories_slugs = FilterSeq(response.data.categories_slugs, categories)]}
  ELSE {[city |-> NULL, country |-> NULL, language |-> NULL, is_remote |-> NULL,
         date_from |-> NULL, date_to |-> NULL, categories_slugs |-> <<>>,
         top_k |-> 12, user_query_rewritten |-> "rewritten"]}

\* understand_query: the intent with its categories filtered to
\* self.categories, None on any exception
understand_query(response) ==
  IF response.kind = "intent"
  THEN {[response.data EXCEPT
           !.categories_slugs = FilterSeq(response.data.categories_slugs, categories)]}
  ELSE {}

\* AISearchRequest: profile_inline is None (the empty set) or a dict with
\* some of the keys city and languages
AISearchRequests ==
  [query : {"query"}, top_k : {1, 3},
   profile_inline : {{}} \union {{profile} : profile \in
                       {p \in Profiles : p.keys \subseteq {"city", "languages"}}}]

\* the EventSearchResult made of a retrieved node
EventSearchResultOf(id) ==
  [id |-> id, city |-> IndexedDocs[id].city, language |-> IndexedDocs[id].language,
   categories_slugs |-> IndexedDocs[id].categories_slugs,
   is_remote |-> IndexedDocs[id].is_remote, score |-> IndexedDocs[id].score]

\* the Ukrainian sentence whatever the language
SynthesisFallback_AlwaysUkrainian(language) == "fallback sentence in Ukrainian"

\* the fixed sentences returned when the synthesis raises: the Ukrainian one
\* for language "uk", the English one for any other language
SynthesisFallback(language) ==
  IF language = "uk" THEN "fallback sentence in Ukrainian"
  ELSE "Found events that might interest you. Please review the results above."

\* synthesize_answer: the answer of the synthesizer, or the fallback when
\* the synthesis raises
synthesize_answer(synthesis, language) ==
  IF synthesis = "ok" THEN "synthesized answer" ELSE SynthesisFallback(language)

\* request.profile_inline is true: a dict that is not empty
ProfileGiven(request) ==
  \E profile \in request.profile_inline : profile.keys # {}

\* request.profile_inline.get("languages", ["uk"])[0] if request.profile_inline
\* else "uk": the set of the language, empty when [0] raises IndexError
SelectLanguage(request) ==
  IF ProfileGiven(request)
  THEN LET profile == CHOOSE p \in request.profile_inline : TRUE
       IN IF "languages" \in profile.keys
          THEN {profile.languages[i] : i \in DOMAIN profile.languages \cap {1}}
          ELSE {"uk"}
  ELSE {"uk"}

\* POST /ai/search: retrieval and synthesis tell whether search_similar and
\* the synthesizer raise
CallAiSearch(request, response, retrieval, synthesis) ==
  /\ call = NoCall
  /\ \E intent \in {understand_query(response)} :
     \E top_k \in {IF intent = {} THEN request.top_k
                   ELSE (CHOOSE i \in intent : TRUE).top_k} :
     \E found \in {[i \in DOMAIN Retrieve(NodesMatching(MetadataFilters(intent)), top_k) |->
                     EventSearchResultOf(
                       Retrieve(NodesMatching(MetadataFilters(intent)), top_k)[i])]} :
     \E hits \in {IF ProfileGiven(request)
                  THEN calculate_match_scores(found,
                                              CHOOSE p \in request.profile_inline : TRUE)
                  ELSE found} :
     \E language \in {SelectLanguage(request)} :
       call' =
         IF retrieval = "raises" \/ language = {}
         THEN [op |-> "ai_search", request |-> request, response |-> response,
               intent |-> intent,
               query_text |-> IF intent = {} THEN request.query
                              ELSE (CHOOSE i \in intent : TRUE).user_query_rewritten,
               top_k |-> top_k, filters |-> MetadataFilters(intent),
               retrieval |-> retrieval, synthesis |-> "not called", found |-> <<>>,
               language |-> language, status_code |-> 500, hits |-> <<>>,
               chat_answer |-> ""]
         ELSE [op |-> "ai_search", request |-> request, response |-> response,
               intent |-> intent,
               query_text |-> IF intent = {} THEN request.query
                              ELSE (CHOOSE i \in intent : TRUE).user_query_rewritten,
               top_k |-> top_k, filters |-> MetadataFilters(intent),
               retrieval |-> retrieval, synthesis |-> synthesis, found |-> found,
               language |-> language, status_code |-> 200, hits |-> hits,
               chat_answer |-> synthesize_answer(synthesis,
                                                 CHOOSE l \in language : TRUE)]
  /\ UNCHANGED <<consumer_vars, events, event_categories>>

(***************************************************************************)
(* models/event.py: the construction of an EventExtraction                 *)
(***************************************************************************)
\* EventExtraction(title=..., language=language, country=country): the set
\* of the object constructed, empty when a validator raises ValueError
CallEventExtraction(language, country) ==
  /\ call = NoCall
  /\ \E data \in {[title |-> <<"t">>, language |-> language, country |-> country]} :
       call' = [op |-> "EventExtraction", data |-> data,
                extraction |-> IF EventExtractionValid(data)
                               THEN {EventExtraction(data)} ELSE {}]
  /\ UNCHANGED <<consumer_vars, events, event_categories>>

(***************************************************************************)
(* llm/extraction.py: extract_event_data with any max_retries              *)
(***************************************************************************)
\* the largest max_retries extract_event_data is called with
MaxRetriesArg == 5

\* for attempt in range(max_retries): classes[attempt + 1] is the branch the
\* attempt ends in; sleeps are the arguments of asyncio.sleep so far
RECURSIVE ExtractAttempts(_, _, _, _)
ExtractAttempts(attempt, classes, retries, sleeps) ==
  IF attempt >= retries
  THEN [returns |-> "None", calls |-> attempt, sleeps |-> sleeps]
  ELSE IF classes[attempt + 1] = "ok"
  THEN [returns |-> "extraction", calls |-> attempt + 1, sleeps |-> sleeps]
  ELSE IF attempt < retries - 1
  THEN ExtractAttempts(attempt + 1, classes, retries,
                       Append(sleeps, Backoff(classes[attempt + 1], attempt)))
  ELSE [returns |-> IF classes[attempt + 1] = "rate" THEN "raises" ELSE "None",
        calls |-> attempt + 1, sleeps |-> sleeps]

\* extract_event_data(raw_text, max_retries), the LLM answering the attempts
\* with the classes given
CallExtractEventData(classes, retries) ==
  /\ call = NoCall
  /\ \E r \in {ExtractAttempts(0, classes, retries, <<>>)} :
       call' = [op |-> "extract_event_data", classes |-> classes, retries |-> retries,
                returns |-> r.returns, calls |-> r.calls, sleeps |-> r.sleeps]
  /\ UNCHANGED <<consumer_vars, events, event_categories>>

(***************************************************************************)
(* database/connection.py: the DatabasePool singleton                      *)
(***************************************************************************)
\* the tasks of the event loop that call get_db_pool, and how often the pool
\* is closed
NumCallers == 2
MaxCloses == 1

\* db_pool = DatabasePool(): _pool is None (0); created counts the pools
\* asyncpg.create_pool has returned, open are those not closed, pc is where
\* each caller is
FreshPool ==
  [op |-> "db_pool", _pool |-> 0, created |-> 0, open |-> {}, closes |-> 0,
   pc |-> [c \in 1..NumCallers |-> "idle"]]

PoolState == IF call = NoCall THEN FreshPool ELSE call

\* get_db_pool() up to its first await: it returns db_pool when _pool is set,
\* else initialize() runs up to await asyncpg.create_pool(...)
GetDbPool(c) ==
  /\ call = NoCall \/ call.op = "db_pool"
  /\ PoolState.pc[c] \in {"idle", "returned"}
  /\ call' = IF PoolState._pool # 0
             THEN [PoolState EXCEPT !.pc[c] = "returned"]
             ELSE [PoolState EXCEPT !.pc[c] = "create_pool"]
  /\ UNCHANGED <<consumer_vars, events, event_categories>>

\* asyncpg.create_pool returns the new pool, which is assigned to _pool, or
\* it raises and initialize re-raises
CreatePoolReturns(c, ok) ==
  /\ call # NoCall
  /\ call.op = "db_pool"
  /\ call.pc[c] = "create_pool"
  /\ call' = IF ok
             THEN [call EXCEPT !._pool = call.created + 1,
                               !.created = call.created + 1,
                               !.open = @ \union {call.created + 1},
                               !.pc[c] = "returned"]
             ELSE [call EXCEPT !.pc[c] = "raised"]
  /\ UNCHANGED <<consumer_vars, events, event_categories>>

\* close(): if self._pool: the pool is closed and _pool is None again
ClosePool ==
  /\ call # NoCall
  /\ call.op = "db_pool"
  /\ call._pool # 0
  /\ call.closes < MaxCloses
  /\ call' = [call EXCEPT !.open = @ \ {call._pool}, !._pool = 0, !.closes = @ + 1]
  /\ UNCHANGED <<consumer_vars, events, event_categories>>

CallNext ==
  \/ \E u \in FpUrls, t \in FpTitles, x \in FpTexts : CallGenerateFingerprint(u, t, x)
  \/ \E b \in BodyIds : CallProcessMessage(b)
  \/ \E text \in BeautifyTexts : CallBeautifyText(text)
  \/ \E event_id \in LinkEventIds, category_slugs \in LinkSlugs :
       CallLinkCategories(event_id, category_slugs)
  \/ \E db_ok \in BOOLEAN : LinkCategoriesFetch(db_ok)
  \/ \E db_ok \in BOOLEAN : LinkCategoriesExecute(db_ok)
  \/ \E request \in SearchRequests : CallSearchEvents(request)
  \/ \E optional_intent \in OptionalIntents, top_k \in TopKs :
       CallSearchSimilar(optional_intent, top_k)
  \/ \E hits \in EventLists, profile \in Profiles : CallCalculateMatchScores(hits, profile)
  \/ \E request \in AISearchRequests, response \in UnderstandResponses,
        retrieval \in {"ok", "raises"}, synthesis \in {"ok", "raises"} :
       CallAiSearch(request, response, retrieval, synthesis)
  \/ \E language \in {<<"u", "k">>, <<"U", "K">>, <<"u", "1">>, <<"1", "2">>, <<"u">>,
                       <<"u", "k", "r">>, <<>>},
        country \in {None, <<>>, <<"U", "A">>, <<"u", "a">>, <<"U", "1">>, <<"U">>,
                      <<"U", "K", "R">>} :
       CallEventExtraction(language, country)
  \/ \E retries \in 0..MaxRetriesArg :
       \E classes \in [1..retries -> {"ok", "json", "other", "rate"}] :
         CallExtractEventData(classes, retries)
  \/ \E c \in 1..NumCallers : GetDbPool(c)
  \/ \E c \in 1..NumCallers, ok \in BOOLEAN : CreatePoolReturns(c, ok)
  \/ ClosePool

CallSpec == CallInit /\ [][CallNext]_vars

(***************************************************************************)
(* Properties                                                              *)
(***************************************************************************)
\* the outcomes after which process_message has returned True
Handled == {"completed", "duplicate", "no_extraction"}

\* the step in which the process_message of m runs from the await at pc `at`
\* to its next await or to its end
StepOf(m, at) == tasks[m].pc = at /\ tasks'[m] # tasks[m]

\* the step in which poll_messages collects the results and deletes
DeleteStep == pollpc = "gather" /\ pollpc' = "receive"

\* the fingerprint upsert_event computes for message m
FingerprintOf(m) ==
  generate_fingerprint(SourceUrl(body[m]),
                       Extraction(tasks[m].extraction, categories).title,
                       BeautifiedText[body[m]])

\* upsert_event has returned for the process_message of m
UpsertReturned(m) == m \in messages /\ tasks[m].event_id # 0

\* the rows of the store that carry a fingerprint
RowsWith(fp) == {i \in DOMAIN events : events[i].dedupe_fingerprint = fp}

C2_RateLimitedLeavesMessageQueued ==
  [][/\ \A m \in Msgs :
          (StepOf(m, "achat") /\ tasks'[m].n_rate = max_retries) =>
             /\ tasks'[m].pc = "done"
             /\ tasks'[m].result = "False"
             /\ metrics'.error_count = metrics.error_count + 1
             /\ metrics'.processed_count = metrics.processed_count
             /\ tasks'[m].calls = {}
             /\ <<events, event_categories, vector_index>>' =
                  <<events, event_categories, vector_index>>
     /\ DeleteStep =>
          \A m \in messages :
            tasks[m].n_rate = max_retries => (m \notin EntriesToDelete /\ m \in queue')]_vars

\* C2 witness: a process_message whose three attempts were all rate-limited has
\* returned False
C2_Witness ==
  \E m \in messages :
    /\ tasks[m].n_rate = max_retries
    /\ tasks[m].result = "False"
    /\ m \in queue

\* C3: after max_retries attempts that all failed with a rate-limit-classified
\* error, extract_event_data has raised the error: it did not return None.
C3_RateLimitRaises ==
  \A m \in messages :
    tasks[m].n_rate = max_retries =>
      /\ tasks[m].attempt = max_retries - 1
      /\ tasks[m].pc = "done"
      /\ tasks[m].cause = "rate_limit"

\* C3 witness: extract_event_data raised after its last rate-limited attempt
C3_Witness ==
  \E m \in messages :
    /\ tasks[m].n_rate = max_retries
    /\ tasks[m].cause = "rate_limit"
    /\ tasks[m].backoff = Backoff("rate", max_retries - 2)

\* C4: after max_retries attempts that all failed with a JSON parse failure or
\* an error not classified as rate limiting (a schema-validation failure is
\* one), extract_event_data has returned None and no exception reached
\* process_message.
C4_SoftFailureReturnsNone ==
  /\ AttemptClass(4) = "json"
  /\ AttemptClass(5) = "other"
  /\ \A m \in messages :
       tasks[m].n_soft = max_retries =>
         /\ tasks[m].attempt = max_retries - 1
         /\ tasks[m].pc = "done"
         /\ tasks[m].cause = "no_extraction"

\* C4 witness: extract_event_data returned None after three attempts without a
\* usable answer
C4_Witness ==
  \E m \in messages :
    /\ tasks[m].n_soft = max_retries
    /\ tasks[m].cause = "no_extraction"

\* C5: when extract_event_data returns None (its last attempt failed with an
\* error that is not a rate limit), process_message returns True, so the
\* message is in the delete batch; error_count grows by one, processed_count
\* does not change, and no embed, upsert, link or index call is made.
C5_NoExtractionIsDeletedAsError ==
  [][\A m \in Msgs :
          (/\ StepOf(m, "achat")
           /\ tasks'[m].pc = "done"
           /\ tasks'[m].n_soft > tasks[m].n_soft) =>
             /\ tasks'[m].result = "True"
             /\ metrics'.error_count = metrics.error_count + 1
             /\ metrics'.processed_count = metrics.processed_count
             /\ metrics'.duplicate_count = metrics.duplicate_count
             /\ tasks'[m].calls = {}
             /\ <<events, event_categories, vector_index, link_calls>>' =
                  <<events, event_categories, vector_index, link_calls>>
             /\ m \in EntriesToDelete']_vars

\* C5 witness: a process_message without extraction has returned True while
\* nothing was processed
C5_Witness ==
  \E m \in messages :
    /\ tasks[m].cause = "no_extraction"
    /\ tasks[m].result = "True"
    /\ m \in EntriesToDelete
    /\ metrics.error_count > 0
    /\ metrics.processed_count = 0

\* C6: a message whose body is not valid JSON or lacks external_id or text is
\* counted as an error and is in the delete batch once its process_message has
\* returned.
C6_MalformedIsDeleted ==
  \A m \in messages :
    (tasks[m].pc = "done" /\ ~ParseOk(body[m])) =>
      (metrics.error_count > 0 /\ m \in EntriesToDelete)

\* C7: when upsert_event raises, process_message returns False, error_count
\* grows by one, processed_count does not change, the store is as before, and
\* a message whose process_message returned False stays in the queue.
C7_StorageFailureLeavesMessageQueued ==
  [][/\ \A m \in Msgs :
          (StepOf(m, "upsert") /\ tasks'[m].event_id = 0) =>
             /\ tasks'[m].pc = "done"
             /\ tasks'[m].result = "False"
             /\ metrics'.error_count = metrics.error_count + 1
             /\ metrics'.processed_count = metrics.processed_count
             /\ events' = events
     /\ DeleteStep =>
          \A m \in messages : tasks[m].result = "False" => m \in queue']_vars

\* C7 witness: upsert_event raised for a message, which is not in the delete batch
C7_Witness ==
  \E m \in messages :
    /\ tasks[m].cause = "storage_failed"
    /\ "upsert_event" \in tasks[m].calls
    /\ tasks[m].result = "False"
    /\ metrics.error_count > 0
    /\ m \notin EntriesToDelete

\* C8: when upsert_event returns is_new = False, process_message calls neither
\* link_categories nor index_event, duplicate_count and processed_count grow
\* by one each, error_count does not change, and it returns True.
C8_DuplicateShortCircuits ==
  [][\A m \in Msgs :
       (StepOf(m, "upsert") /\ tasks'[m].event_id # 0 /\ ~tasks'[m].is_new) =>
          /\ tasks'[m].pc = "done"
          /\ tasks'[m].result = "True"
          /\ tasks'[m].calls \cap {"link_categories", "index_event"} = {}
          /\ metrics'.duplicate_count = metrics.duplicate_count + 1
          /\ metrics'.processed_count = metrics.processed_count + 1
          /\ metrics'.error_count = metrics.error_count
          /\ <<event_categories, vector_index, link_calls>>' =
               <<event_categories, vector_index, link_calls>>]_vars

\* C8 witness: a process_message has returned True after upsert_event returned
\* an existing event
C8_Witness ==
  \E m \in messages :
    /\ UpsertReturned(m)
    /\ ~tasks[m].is_new
    /\ tasks[m].result = "True"
    /\ metrics.duplicate_count > 0

\* C9: the store holds exactly one row for each fingerprint an upsert_event
\* returned for; exactly one upsert_event call returned is_new = True for it
\* (the one that inserted the row) and every call returned the id of that row;
\* link_categories and index_event were each called at most once for the event.
C9_OneEventPerKey ==
  /\ \A i, j \in DOMAIN events :
       events[i].dedupe_fingerprint = events[j].dedupe_fingerprint => i = j
  /\ \A i \in DOMAIN events :
       /\ events[i].id = i
       /\ CountOf(new_returns, events[i].dedupe_fingerprint) = 1
  /\ \A e \in new_returns : e[2] = 1 /\ RowsWith(e[1]) # {}
  /\ \A m \in Msgs :
       UpsertReturned(m) =>
         RowsWith(FingerprintOf(m)) = {tasks[m].event_id}
  /\ \A e \in link_calls \union vector_index : e[2] = 1 /\ e[1] \in DOMAIN events

\* C9 witness: a message processed alone got is_new = False and the id of the
\* one row of its key, which an earlier message had inserted and indexed
C9_Witness ==
  \E m \in messages :
    /\ messages = {m}
    /\ UpsertReturned(m)
    /\ ~tasks[m].is_new
    /\ Len(events) = 1
    /\ events[1].updated_at = "updated"
    /\ CountOf(new_returns, FingerprintOf(m)) = 1
    /\ CountOf(vector_index, tasks[m].event_id) = 1

\* C10: of two messages of one batch with the same fingerprint whose
\* upsert_event calls have both returned, whatever the order of their steps,
\* both got the id of the one row with that fingerprint, at most one got
\* is_new = True (exactly one call did, of all calls for the fingerprint), and
\* index_event was called for at most one of them.
C10_ConcurrentUpsertsOneRow ==
  \A m, n \in messages :
    (m # n /\ UpsertReturned(m) /\ UpsertReturned(n)
       /\ FingerprintOf(m) = FingerprintOf(n)) =>
      /\ Cardinality(RowsWith(FingerprintOf(m))) = 1
      /\ tasks[m].event_id = tasks[n].event_id
      /\ ~(tasks[m].is_new /\ tasks[n].is_new)
      /\ CountOf(new_returns, FingerprintOf(m)) = 1
      /\ ~("index_event" \in tasks[m].calls /\ "index_event" \in tasks[n].calls)
      /\ CountOf(vector_index, tasks[m].event_id) <= 1

\* C10 witness: two messages of one batch with the same fingerprint and
\* different bodies, the first upsert_event returned is_new = True, the second
\* is_new = False
C10_Witness ==
  \E m, n \in messages :
    /\ body[m] # body[n]
    /\ UpsertReturned(m) /\ UpsertReturned(n)
    /\ FingerprintOf(m) = FingerprintOf(n)
    /\ tasks[m].is_new /\ ~tasks[n].is_new
    /\ tasks[n].pc = "done"

\* the columns of a row that no upsert may change after the insert
Immutable(row) ==
  [id |-> row.id, dedupe_fingerprint |-> row.dedupe_fingerprint,
   title |-> row.title, city |-> row.city, country |-> row.country,
   language |-> row.language, organizer |-> row.organizer,
   source_url |-> row.source_url, source_type |-> row.source_type,
   raw_text |-> BeautifiedText[row.source], embedding |-> row.embedding]

\* C11: no step changes the id, fingerprint, title, city, country, language,
\* organizer, source_url, raw_text or embedding of a stored row, and an upsert
\* that returns is_new = False adds no row, touches no other row, and sets the
\* update timestamp, status, occurs_from, occurs_to and deadline_at of its
\* row to the values of the new extraction.
C11_ConflictUpdatesOnlyMutableColumns ==
  [][/\ \A i \in DOMAIN events :
          i \in DOMAIN events' /\ Immutable(events'[i]) = Immutable(events[i])
     /\ \A m \in Msgs :
          (StepOf(m, "upsert") /\ tasks'[m].event_id # 0 /\ ~tasks'[m].is_new) =>
             /\ DOMAIN events' = DOMAIN events
             /\ \A j \in DOMAIN events : j # tasks'[m].event_id => events'[j] = events[j]
             /\ events'[tasks'[m].event_id].updated_at = "updated"
             /\ events'[tasks'[m].event_id].status =
                  Extraction(tasks[m].extraction, categories).status
             /\ events'[tasks'[m].event_id].occurs_from =
                  Extraction(tasks[m].extraction, categories).occurs_from
             /\ events'[tasks'[m].event_id].occurs_to =
                  Extraction(tasks[m].extraction, categories).occurs_to
             /\ events'[tasks'[m].event_id].deadline_at =
                  Extraction(tasks[m].extraction, categories).deadline_at]_vars

\* C11 witness: an upsert has updated a row with an extraction whose title,
\* city and organizer differ from the row's, and the row kept its own
C11_Witness ==
  \E m \in messages :
    /\ UpsertReturned(m)
    /\ ~tasks[m].is_new
    /\ events[tasks[m].event_id].updated_at = "updated"
    /\ events[tasks[m].event_id].title # Extraction(tasks[m].extraction, categories).title
    /\ events[tasks[m].event_id].city # Extraction(tasks[m].extraction, categories).city
    /\ events[tasks[m].event_id].organizer #
         Extraction(tasks[m].extraction, categories).organizer
    /\ events[tasks[m].event_id].status = Extraction(tasks[m].extraction, categories).status

\* the body is a JSON object with external_id and text and
\* without source_id, run_id, posted_at, author and metadata
MinimalBody(b) ==
  /\ BodyTable[b].json_ok
  /\ BodyTable[b].keys = {"external_id", "text"}

\* C12: a message whose body holds only external_id and text is not rejected
\* as malformed: its process_message gets past the construction of SQSMessage
\* and calls the extraction.
C12_MinimalBodyAccepted ==
  (call.op = "process_message" /\ MinimalBody(call.body)) =>
    /\ call.task.cause # "malformed"
    /\ call.task.pc = "achat"
    /\ SourceType(call.body) = "telegram"
    /\ SourceUrl(call.body) = PlaceholderUrl(BodyTable[call.body].external_id)

\* the lower-cased triple generate_fingerprint hashes
FingerprintKey(source_url, title, raw_text) ==
  <<lower(source_url), lower(title), lower(text_prefix(raw_text))>>

\* C13: the digest has 64 hexadecimal digits, and any arguments that agree
\* with the call's up to letter case and up to the text after the 200th
\* character get the same digest.
C13_FingerprintIgnoresCaseAndTail ==
  call.op = "generate_fingerprint" =>
    /\ Len(call.result) = 64
    /\ \A i \in 1..Len(call.result) : \E d \in DOMAIN HexDigits : HexDigits[d] = call.result[i]
    /\ call.result = generate_fingerprint(call.source_url, call.title, call.raw_text)
    /\ \A u \in FpUrls, t \in FpTitles, x \in FpTexts :
         (/\ lower(u) = lower(call.source_url)
          /\ lower(t) = lower(call.title)
          /\ lower(SubSeq(x, 1, Min(Len(x), 200))) =
               lower(SubSeq(call.raw_text, 1, Min(Len(call.raw_text), 200))))
           => generate_fingerprint(u, t, x) = call.result

\* C13 witness: a call on a text of more than 200 characters whose digest is
\* also that of other arguments, which differ from it in the case of the URL,
\* of the title and of the text, and in the text after the 200th character
C13_Witness ==
  /\ call.op = "generate_fingerprint"
  /\ Len(call.raw_text) > 200
  /\ \E u \in FpUrls, t \in FpTitles, x \in FpTexts :
       /\ u # call.source_url /\ t # call.title
       /\ Len(x) > 200
       /\ SubSeq(x, 1, 200) # SubSeq(call.raw_text, 1, 200)
       /\ SubSeq(x, 201, Len(x)) # SubSeq(call.raw_text, 201, Len(call.raw_text))
       /\ generate_fingerprint(u, t, x) = call.result

\* C14: arguments whose lower-cased (source_url, title, first 200 characters
\* of raw_text) differ from the call's get another digest.
C14_FingerprintSeparatesKeys ==
  call.op = "generate_fingerprint" =>
    \A u \in FpUrls, t \in FpTitles, x \in FpTexts :
      FingerprintKey(u, t, x) # FingerprintKey(call.source_url, call.title, call.raw_text)
        => generate_fingerprint(u, t, x) # call.result

\* C15: beautify_text applied to its own result returns it unchanged.
C15_BeautifyIdempotent ==
  call.op = "beautify_text" => beautify_text(call.result) = call.result

\* the text with every URL that occurred before removed, the first occurrence
\* of each URL and everything else left where it is
RECURSIVE KeepFirstUrls(_, _)
KeepFirstUrls(s, seen) ==
  LET at == {i \in 1..Len(s) : UrlMatchLen(SubSeq(s, i, Len(s))) > 0}
  IN IF at = {} THEN s
     ELSE LET i == MinOf(at)
              n == UrlMatchLen(SubSeq(s, i, Len(s)))
              url == SubSeq(s, i, i + n - 1)
          IN SubSeq(s, 1, i - 1) \o (IF url \in seen THEN <<>> ELSE url)
               \o KeepFirstUrls(SubSeq(s, i + n, Len(s)), seen \union {url})

\* C16: of a one-line text, beautify_text returns the text with the first
\* occurrence of every URL in its place, every later occurrence of the same
\* URL removed, and the other URLs untouched.
C16_KeepsFirstUrlOccurrence ==
  (call.op = "beautify_text" /\ call.text \in UrlTexts) =>
    call.result = Strip(CollapseWhitespace(KeepFirstUrls(call.text, {})))

\* a line break stands between two characters of the text that are not white space
HasInnerLineBreak(text) ==
  \E i, j, k \in DOMAIN text :
    /\ i < j /\ j < k
    /\ text[i] \notin Whitespace /\ text[j] \in {"\n", "\r"} /\ text[k] \notin Whitespace

\* C17: the result of beautify_text has no carriage return, keeps a line break
\* wherever the text has one between two non-empty lines, and is
\* "Line 1\nLine 2\nLine 3\n\nLine 4" for the text of the unit test.
C17_LineStructurePreserved ==
  (call.op = "beautify_text" /\ call.text # None) =>
    /\ \A i \in DOMAIN call.result : call.result[i] # "\r"
    /\ HasInnerLineBreak(call.text) => \E i \in DOMAIN call.result : call.result[i] = "\n"
    /\ call.text = LineBreakExample => call.result = LineBreakExpected

\* the elements of seq that are in S, each once per occurrence, in the order of seq
KeptInOrder(seq, kept, S) ==
  LET at == {j \in DOMAIN seq : seq[j] \in S}
  IN /\ Len(kept) = Cardinality(at)
     /\ \A i \in DOMAIN kept :
          kept[i] = seq[CHOOSE j \in at : Cardinality({k \in at : k <= j}) = i]

\* C18: the categories of every extraction extract_event_data returned are the
\* known ones among the categories the model answered, in the model's order;
\* an answer with unknown categories is returned like any other (it is no
\* failed extraction); and every link of event_categories is to a known category.
C18_OnlyKnownCategories ==
  /\ \A m \in Msgs :
       tasks[m].extraction # 0 =>
         /\ \A i \in DOMAIN Extraction(tasks[m].extraction, categories).categories_slugs :
              Extraction(tasks[m].extraction, categories).categories_slugs[i] \in categories
         /\ KeptInOrder(LLMOutcomes[tasks[m].extraction].data.categories_slugs,
                        Extraction(tasks[m].extraction, categories).categories_slugs,
                        categories)
         /\ tasks[m].cause \notin {"no_extraction", "rate_limit"}
  /\ \A link \in event_categories : link[2] \in categories

\* an answer with the categories c2, zz, c1 was returned, and its event is
\* linked to c2 and to c1
C18_Witness ==
  \E m \in Msgs :
    /\ tasks[m].extraction # 0
    /\ LLMOutcomes[tasks[m].extraction].data.categories_slugs = <<"c2", "zz", "c1">>
    /\ Extraction(tasks[m].extraction, categories).categories_slugs = <<"c2", "c1">>
    /\ <<tasks[m].event_id, "c2">> \in event_categories
    /\ <<tasks[m].event_id, "c1">> \in event_categories

\* the links of the event to the slugs that are rows of the categories table
KnownLinks(event_id, category_slugs) ==
  {<<event_id, category_slugs[i]>> :
     i \in {j \in DOMAIN category_slugs : category_slugs[j] \in CategoryTable}}

\* C19: link_categories with no slugs returns without a call of the store and
\* without a change; a call that has returned has only added links of its event
\* to existing categories of its slugs, and all of them when no INSERT failed;
\* it raises only when the SELECT raised (never because of an unknown slug or
\* an existing link); and the repetition of a call that added all its links
\* leaves event_categories as it was.
C19_LinkCategories ==
  call.op = "link_categories" =>
    /\ call.category_slugs = <<>> =>
         call.pc = "returned" /\ call.store_calls = 0 /\ event_categories = call.before
    /\ call.before \subseteq event_categories
    /\ event_categories \subseteq
         call.before \union KnownLinks(call.event_id, call.category_slugs)
    /\ (call.pc = "returned" /\ ~call.failed) =>
         event_categories =
           call.before \union KnownLinks(call.event_id, call.category_slugs)
    /\ call.pc = "raised" => call.store_calls = 1 /\ event_categories = call.before
    /\ ( /\ call.pc = "returned"
         /\ call.prev # NoCall
         /\ call.prev = [event_id |-> call.event_id,
                         category_slugs |-> call.category_slugs, failed |-> FALSE] )
       => event_categories = call.before

\* the call with the slugs c2, zz, c1 was repeated on the links it had added,
\* made its three calls of the store again, and has returned
C19_Witness ==
  /\ call.op = "link_categories"
  /\ call.pc = "returned"
  /\ call.category_slugs = <<"c2", "zz", "c1">>
  /\ call.prev # NoCall
  /\ call.prev = [event_id |-> call.event_id,
                  category_slugs |-> call.category_slugs, failed |-> FALSE]
  /\ ~call.failed
  /\ call.store_calls = 3
  /\ event_categories = {<<call.event_id, "c1">>, <<call.event_id, "c2">>}

\* the value was supplied: a query parameter without a value is none
Supplied(v) == v \notin {NULL, ""}

\* the row is active and passes each of the filters on city, country, language,
\* is_remote, posted_at and deadline_at that the request supplies
Satisfies(row, request) ==
  /\ row.status = "active"
  /\ Supplied(request.city) => row.city = request.city
  /\ Supplied(request.country) => row.country = request.country
  /\ Supplied(request.language) => row.language = request.language
  /\ request.is_remote # NULL => row.is_remote = request.is_remote
  /\ request.posted_from # NULL =>
       row.posted_at # NULL /\ DateOrd[row.posted_at] >= DateOrd[request.posted_from]
  /\ request.posted_to # NULL =>
       row.posted_at # NULL /\ DateOrd[row.posted_at] <= DateOrd[request.posted_to]
  /\ request.deadline_before # NULL =>
       row.deadline_at # NULL /\ DateOrd[row.deadline_at] <= DateOrd[request.deadline_before]
  /\ request.deadline_after # NULL =>
       row.deadline_at # NULL /\ DateOrd[row.deadline_at] >= DateOrd[request.deadline_after]

\* the request has no text query, no occurrence window and no category
OnlySimpleFilters(request) ==
  /\ request.q = NULL
  /\ request.occurs_from = NULL /\ request.occurs_to = NULL
  /\ request.category = <<>>

\* C20: every row search_events returns or counts is active and passes every
\* supplied filter on city, country, language, is_remote (equality) and
\* posted_at, deadline_at (inclusive bounds); and with no other filter
\* supplied, every such row is counted, so that a filter that is not supplied
\* restricts nothing.
C20_ActiveAndEveryFilter ==
  call.op = "search_events" =>
    /\ \A i \in DOMAIN call.events :
         /\ call.events[i] \in call.filtered
         /\ Satisfies(EventsTable[call.events[i]], call.request)
    /\ \A id \in call.filtered : Satisfies(EventsTable[id], call.request)
    /\ OnlySimpleFilters(call.request) =>
         /\ call.filtered = {id \in DOMAIN EventsTable : Satisfies(EventsTable[id], call.request)}
         /\ call.total = Cardinality({id \in DOMAIN EventsTable :
                                        Satisfies(EventsTable[id], call.request)})

\* a search with two of the filters, which an active row passes and is
\* returned, while another active row fails one filter only and a row that
\* passes both is not active
C20_Witness ==
  /\ call.op = "search_events"
  /\ OnlySimpleFilters(call.request)
  /\ call.request.city = "Kyiv"
  /\ call.request.posted_to = "d2"
  /\ call.filtered = {1, 6}
  /\ call.events # <<>>
  /\ EventsTable[3].status # "active" /\ EventsTable[3].city = "Kyiv"
  /\ EventsTable[5].city = "Kyiv" /\ 5 \notin call.filtered

\* the request supplies no filter but those of the set
OnlyFilters(request, fields) ==
  \A f \in FilterFields \ fields : IsDefault(request, f)

\* the occurrence window of the row passes the occurs_from/occurs_to of the request
Overlaps(row, request) ==
  IF request.occurs_from # NULL /\ request.occurs_to # NULL
  THEN /\ row.occurs_from # NULL /\ row.occurs_to # NULL
       /\ DateOrd[row.occurs_from] <= DateOrd[request.occurs_to]
       /\ DateOrd[row.occurs_to] >= DateOrd[request.occurs_from]
  ELSE IF request.occurs_from # NULL
  THEN row.occurs_to # NULL /\ DateOrd[row.occurs_to] >= DateOrd[request.occurs_from]
  ELSE IF request.occurs_to # NULL
  THEN row.occurs_from # NULL /\ DateOrd[row.occurs_from] <= DateOrd[request.occurs_to]
  ELSE TRUE

\* C21: every row search_events counts passes the overlap test of the request
\* (row.occurs_from <= requested occurs_to and row.occurs_to >= requested
\* occurs_from with both given, the one bound with one given); and with no
\* other filter, the rows counted are exactly the active rows that pass it.
C21_OccurrenceOverlap ==
  call.op = "search_events" =>
    /\ \A id \in call.filtered : Overlaps(EventsTable[id], call.request)
    /\ OnlyFilters(call.request, {"occurs_from", "occurs_to"}) =>
         call.filtered = {id \in DOMAIN EventsTable :
                            /\ EventsTable[id].status = "active"
                            /\ Overlaps(EventsTable[id], call.request)}

\* a search for the window d1..d2 alone counted the rows 1, 2 and 6, and not
\* the row that starts after the window nor the row without a window
C21_Witness ==
  /\ call.op = "search_events"
  /\ OnlyFilters(call.request, {"occurs_from", "occurs_to"})
  /\ call.request.occurs_from = "d1"
  /\ call.request.occurs_to = "d2"
  /\ call.filtered = {1, 2, 6}
  /\ EventsTable[5].occurs_from = "d3"
  /\ EventsTable[4].occurs_from = NULL

\* the row passes every filter of the request
Matches(id, request) ==
  /\ Satisfies(EventsTable[id], request)
  /\ Overlaps(EventsTable[id], request)
  /\ request.q # NULL => request.q \in EventsTable[id].words
  /\ request.category # <<>> =>
       \E i \in DOMAIN request.category : <<id, request.category[i]>> \in EventCategoriesTable

Matching(request) == {id \in DOMAIN EventsTable : Matches(id, request)}

\* the place of a row in ascending order of the sort column: a NULL after every date
SortRank(id, sort_by) ==
  IF EventsTable[id][sort_by] = NULL THEN Cardinality(Dates)
  ELSE DateOrd[EventsTable[id][sort_by]]

\* all is an arrangement of the rows of ids in the order of the request
IsSorted(all, ids, request) ==
  /\ Len(all) = Cardinality(ids)
  /\ {all[i] : i \in DOMAIN all} = ids
  /\ \A i \in DOMAIN all : i > 1 =>
       IF request.order = "asc"
       THEN SortRank(all[i - 1], request.sort_by) <= SortRank(all[i], request.sort_by)
       ELSE SortRank(all[i - 1], request.sort_by) >= SortRank(all[i], request.sort_by)

\* C22: total is the number of rows that pass the filters, whatever the page
\* and the size; the rows returned are at most size, and they are the rows
\* (page-1)*size+1 .. min(page*size, total) of the matching rows in the order
\* of the request.
C22_Pagination ==
  call.op = "search_events" =>
    /\ call.total = Cardinality(Matching(call.request))
    /\ Len(call.events) <= call.request.size
    /\ \E all \in [1..call.total -> Matching(call.request)] :
         /\ IsSorted(all, Matching(call.request), call.request)
         /\ call.events =
              [i \in 1..(Min(call.request.page * call.request.size, call.total)
                          - Min((call.request.page - 1) * call.request.size, call.total))
                 |-> all[(call.request.page - 1) * call.request.size + i]]

\* page 2 of size 2 of the five active rows by ascending posted_at: the third
\* row (the second of the two rows posted at d2) and the fourth
C22_Witness ==
  /\ call.op = "search_events"
  /\ OnlyFilters(call.request, {})
  /\ call.request.page = 2 /\ call.request.size = 2
  /\ call.request.sort_by = "posted_at" /\ call.request.order = "asc"
  /\ call.total = 5
  /\ Len(call.events) = 2
  /\ call.events[1] = 6 /\ call.events[2] = 5

\* the active events linked to a category of the request
LinkedToRequested(request) ==
  {id \in DOMAIN EventsTable :
     /\ EventsTable[id].status = "active"
     /\ \E i \in DOMAIN request.category : <<id, request.category[i]>> \in EventCategoriesTable}

\* how often the event is among the rows returned
TimesReturned(id) == Cardinality({i \in DOMAIN call.events : call.events[i] = id})

\* C23: in a search with a category filter no event is returned twice, every
\* event returned or counted is linked to a requested category, and total
\* counts each event that passes the filters once; with the category filter
\* alone these are the active events linked to a requested category.
C23_CategoryFilterDeduplicates ==
  (call.op = "search_events" /\ call.request.category # <<>>) =>
    /\ \A id \in DOMAIN EventsTable : TimesReturned(id) <= 1
    /\ \A id \in call.filtered : id \in LinkedToRequested(call.request)
    /\ call.total = Cardinality(Matching(call.request))
    /\ OnlyFilters(call.request, {"category"}) =>
         /\ call.filtered = LinkedToRequested(call.request)
         /\ call.total = Cardinality(LinkedToRequested(call.request))

\* a search for the categories c1 and c2 counted the event linked to both, the
\* events linked to one of them, four in all, and returned the event linked to
\* both
C23_Witness ==
  /\ call.op = "search_events"
  /\ OnlyFilters(call.request, {"category"})
  /\ call.request.category = <<"c1", "c2">>
  /\ {<<1, "c1">>, <<1, "c2">>} \subseteq EventCategoriesTable
  /\ call.filtered = {1, 2, 5, 6}
  /\ call.total = 4
  /\ TimesReturned(1) = 1

\* the intent of the call
CallIntent == CHOOSE intent \in call.intent : TRUE

\* the document passes the equality filters and the date bounds of the intent
PassesIntentFilters(doc, intent) ==
  /\ intent.city # NULL => doc.city = intent.city
  /\ intent.country # NULL => doc.country = intent.country
  /\ intent.language # NULL => doc.language = intent.language
  /\ intent.is_remote # NULL => doc.is_remote = intent.is_remote
  /\ intent.date_from # NULL =>
       doc.posted_at # NULL /\ DateOrd[doc.posted_at] >= DateOrd[intent.date_from]
  /\ intent.date_to # NULL =>
       doc.posted_at # NULL /\ DateOrd[doc.posted_at] <= DateOrd[intent.date_to]

\* the document has one of the categories of the intent
HasAnyCategory(doc, intent) ==
  \E i \in DOMAIN intent.categories_slugs, j \in DOMAIN doc.categories_slugs :
    doc.categories_slugs[j] = intent.categories_slugs[i]

\* C24: the documents search_similar matches for an intent are those that
\* pass the equality filters and date bounds of the intent and, when the
\* intent names categories, have at least one of them.
C24_CategoriesAreOred ==
  (call.op = "search_similar" /\ call.intent # {}) =>
    call.matched =
      {id \in DOMAIN IndexedDocs :
         /\ PassesIntentFilters(IndexedDocs[id], CallIntent)
         /\ CallIntent.categories_slugs # <<>> => HasAnyCategory(IndexedDocs[id], CallIntent)}

\* the call of calculate_match_scores that returned
Reranked == call # NoCall /\ call.op = "calculate_match_scores"

\* the weights of the factors, in tenths
FactorWeight(key) ==
  CASE key = "city" -> 3
    [] key = "languages" -> 2
    [] key = "preferred_categories" -> 3
    [] key = "remote_preference" -> 2

RECURSIVE WeightOf(_)
WeightOf(keys) ==
  IF keys = {} THEN 0
  ELSE LET key == CHOOSE k \in keys : TRUE
       IN FactorWeight(key) + WeightOf(keys \ {key})

\* the event matches the profile on the factor
MatchesFactor(event, profile, key) ==
  CASE key = "city" ->
         event.city # NULL /\ CityLower(event.city) = CityLower(profile.city)
    [] key = "languages" ->
         \E i \in DOMAIN profile.languages : profile.languages[i] = event.language
    [] key = "preferred_categories" ->
         \E i \in DOMAIN event.categories_slugs, j \in DOMAIN profile.preferred_categories :
            event.categories_slugs[i] = profile.preferred_categories[j]
    [] key = "remote_preference" ->
         \/ profile.remote_preference = "any"
         \/ profile.remote_preference = "remote" /\ event.is_remote = "True"
         \/ profile.remote_preference = "onsite" /\ event.is_remote = "False"

\* C27: every factor the profile specifies is in the denominator of the
\* profile-match score, so an event that matches none of the factors the
\* profile specifies scores exactly 0, and the neutral 0.5 is given only
\* when the profile specifies no factor
C27_SpecifiedFactorsInDenominator ==
  Reranked =>
    \A i \in DOMAIN call.result :
       /\ call.result[i].neutral => call.profile.keys = {}
       /\ call.profile.keys # {} =>
            call.result[i].profile_match.den = WeightOf(call.profile.keys)
       /\ (/\ call.profile.keys # {}
           /\ \A key \in call.profile.keys :
                 ~MatchesFactor(call.result[i], call.profile, key))
            => call.result[i].profile_match.num = 0

\* a = b
RatioEq(a, b) == a.num * b.den = b.num * a.den

\* C28: a candidate with a semantic score, whatever its value, has the final
\* score 0.7 * semantic + 0.3 * profile_match, and a candidate without one
\* has its profile-match score as the final score
C28_SemanticScoreCombined ==
  Reranked =>
    \A i \in DOMAIN call.result :
       IF call.result[i].score # NoScore
       THEN RatioEq(call.result[i].match_score,
                    Ratio(7 * call.result[i].score * call.result[i].profile_match.den
                            + 300 * call.result[i].profile_match.num,
                          1000 * call.result[i].profile_match.den))
       ELSE RatioEq(call.result[i].match_score, call.result[i].profile_match)

TierRank(tier) == CASE tier = "high" -> 2 [] tier = "medium" -> 1 [] tier = "low" -> 0

\* C29: a result is high iff its final score is at least 0.7, medium iff it
\* is at least 0.4 and below 0.7, low otherwise; the list is in descending
\* order of final score, so no lower tier comes before a higher one
C29_TiersAndDescendingOrder ==
  Reranked =>
    /\ \A i \in DOMAIN call.result :
          LET result == call.result[i]
          IN /\ result.match_tier = "high"
                  <=> 10 * result.match_score.num >= 7 * result.match_score.den
             /\ result.match_tier = "medium"
                  <=> /\ 10 * result.match_score.num >= 4 * result.match_score.den
                      /\ 10 * result.match_score.num < 7 * result.match_score.den
             /\ result.match_tier = "low"
                  <=> 10 * result.match_score.num < 4 * result.match_score.den
    /\ \A i, j \in DOMAIN call.result :
          i < j => /\ RatioGeq(call.result[i].match_score, call.result[j].match_score)
                   /\ TierRank(call.result[i].match_tier) >= TierRank(call.result[j].match_tier)

\* two events given in ascending order of final score come back the other way
\* round, the first high and the second at the lower bound of medium
C29_Witness ==
  /\ Reranked
  /\ Len(call.result) = 2
  /\ call.result[1].id = call.hits[2].id
  /\ call.result[2].id = call.hits[1].id
  /\ call.result[1].match_tier = "high"
  /\ call.result[2].match_tier = "medium"
  /\ RatioEq(call.result[2].match_score, Ratio(4, 10))

\* the call of ai_search that returned
AiSearched == call # NoCall /\ call.op = "ai_search"

\* the ids of a list of events
IdsOf(hits) == [i \in DOMAIN hits |-> hits[i].id]

\* C25: when understand_query fails (the LLM call raises, its answer is not
\* JSON or not a QueryIntent), it returns None instead of raising, and the
\* search goes on with the raw query as search text, the top_k of the request
\* and no metadata filter: the top_k most similar documents of the whole
\* index are retrieved, and the request fails only if the retrieval itself
\* raises or the profile's list of languages is empty
C25_UnderstandingFallback ==
  (AiSearched /\ call.response.kind # "intent") =>
    /\ call.intent = {}
    /\ call.query_text = call.request.query
    /\ call.top_k = call.request.top_k
    /\ call.filters = <<>>
    /\ call.status_code = 500 => (call.retrieval = "raises" \/ call.language = {})
    /\ call.status_code # 500 =>
         /\ call.status_code = 200
         /\ IdsOf(call.found) = Retrieve(DOMAIN IndexedDocs, call.request.top_k)

\* the answer of the LLM is not JSON and the request with top_k 3 and a
\* profile is answered with three hits
C25_Witness ==
  /\ AiSearched
  /\ call.response.kind = "bad_json"
  /\ call.request.top_k = 3
  /\ ProfileGiven(call.request)
  /\ call.status_code = 200
  /\ Len(call.hits) = 3

\* C26: when the synthesis raises, the answer is the fixed sentence of the
\* language (the Ukrainian one for "uk", the English one otherwise), the
\* request succeeds and its hits are the events that were retrieved (in the
\* order of the re-ranking when a profile is given)
C26_SynthesisFallback ==
  (AiSearched /\ call.synthesis = "raises") =>
    /\ call.status_code = 200
    /\ call.chat_answer =
         IF call.language = {"uk"} THEN "fallback sentence in Ukrainian"
         ELSE "Found events that might interest you. Please review the results above."
    /\ Len(call.hits) = Len(call.found)
    /\ {call.hits[i].id : i \in DOMAIN call.hits} = {call.found[i].id : i \in DOMAIN call.found}
    /\ ~ProfileGiven(call.request) => call.hits = call.found

\* the synthesis raises for a profile whose first language is English, and
\* the three hits come with the English sentence
C26_Witness ==
  /\ AiSearched
  /\ call.synthesis = "raises"
  /\ call.language = {"en"}
  /\ Len(call.hits) = 3
  /\ call.chat_answer = "Found events that might interest you. Please review the results above."

\* C30: every EventExtraction that is constructed has a language code of
\* exactly 2 lowercase letters and, when it has a country code, one of
\* exactly 2 uppercase letters
C30_TwoLetterCodes ==
  (call # NoCall /\ call.op = "EventExtraction") =>
    \A extraction \in call.extraction :
       /\ Len(extraction.language) = 2
       /\ \A i \in DOMAIN extraction.language :
             \E c \in DOMAIN UpperToLower : UpperToLower[c] = extraction.language[i]
       /\ extraction.country # None =>
            /\ Len(extraction.country) = 2
            /\ \A i \in DOMAIN extraction.country :
                  extraction.country[i] \in DOMAIN UpperToLower

\* the answers of the model from which an EventExtraction is constructed
ValidOutcomes ==
  {o \in LLMOutcomeIds :
     /\ LLMOutcomes[o].kind = "text"
     /\ LLMOutcomes[o].json_ok
     /\ EventExtractionValid(LLMOutcomes[o].data)}

\* C31: in a process_message run, embed_text is called only after
\* extract_event_data returned an extraction, upsert_event only after
\* embed_text returned, link_categories and index_event only after
\* upsert_event returned is_new = True, index_event only after
\* link_categories is over; a run whose extraction failed calls none of them
C31_StepsInOrder ==
  \A m \in Msgs :
    LET t == tasks[m]
    IN /\ "embed_text" \in t.calls => t.extraction \in ValidOutcomes
       /\ "upsert_event" \in t.calls =>
            ("embed_text" \in t.calls /\ t.cause # "embed_failed")
       /\ t.pc = "upsert" => t.calls = {"embed_text", "upsert_event"}
       /\ ("link_categories" \in t.calls \/ "index_event" \in t.calls) =>
            /\ "upsert_event" \in t.calls
            /\ t.event_id # 0
            /\ t.is_new
       /\ t.pc \in {"link_fetch", "link_exec"} =>
            ("link_categories" \in t.calls /\ "index_event" \notin t.calls)
       /\ ("index_event" \in t.calls /\ t.extraction \in ValidOutcomes
             /\ Extraction(t.extraction, categories).categories_slugs # <<>>) =>
            "link_categories" \in t.calls
       /\ t.cause \in {"no_extraction", "rate_limit", "malformed"} => t.calls = {}

\* a run went through the four calls and completed
C31_Witness ==
  \E m \in messages :
    /\ tasks[m].cause = "completed"
    /\ tasks[m].calls = {"embed_text", "upsert_event", "link_categories", "index_event"}

\* the calls of llm.achat the extract_event_data of m has made or is making
LLMCalls(m) ==
  IF tasks[m].pc = "achat" THEN tasks[m].attempt + 1
  ELSE tasks[m].n_rate + tasks[m].n_soft

\* C32: extract_event_data calls the model at most max_retries times; the
\* attempt that yields a valid result is the last call, and its result is
\* returned at once
C32_AtMostMaxRetriesCalls ==
  [][\A m \in Msgs :
       /\ LLMCalls(m) <= max_retries
       /\ tasks[m].pc = "achat" =>
            (tasks[m].n_rate + tasks[m].n_soft = tasks[m].attempt
               /\ tasks[m].extraction = 0)
       /\ (StepOf(m, "achat") /\ tasks'[m].pc = "achat") =>
            /\ tasks'[m].attempt = tasks[m].attempt + 1
            /\ tasks'[m].attempt < max_retries
            /\ tasks'[m].n_rate + tasks'[m].n_soft = tasks[m].n_rate + tasks[m].n_soft + 1
       /\ (StepOf(m, "achat") /\ tasks'[m].extraction # 0) =>
            /\ tasks'[m].extraction \in ValidOutcomes
            /\ tasks'[m].pc \in {"upsert", "done"}
            /\ tasks'[m].cause \in {"none", "embed_failed"}]_vars

\* in one batch, one extract_event_data has made its max_retries calls and
\* ended, and another has returned the result of a valid answer
C32_Witness ==
  \E m, n \in messages :
    /\ tasks[m].pc = "done"
    /\ LLMCalls(m) = max_retries
    /\ tasks[n].pc = "upsert"
    /\ tasks[n].extraction \in ValidOutcomes

\* C34: after failures of mixed classes, extract_event_data raises exactly
\* when the error of its last attempt is classified as a rate limit, and
\* returns None exactly when it is not, whatever the earlier attempts were
C34_LastAttemptDecides ==
  [][\A m \in Msgs :
       (StepOf(m, "achat") /\ tasks'[m].pc = "done" /\ tasks'[m].extraction = 0) =>
          /\ tasks[m].attempt = max_retries - 1
          /\ tasks'[m].n_rate > tasks[m].n_rate <=> tasks'[m].cause = "rate_limit"
          /\ tasks'[m].n_soft > tasks[m].n_soft <=> tasks'[m].cause = "no_extraction"
          /\ tasks'[m].cause \in {"rate_limit", "no_extraction"}]_vars

\* one call returned None after rate limits followed by another error, and
\* one raised after another error followed by a rate limit
C34_Witness ==
  \E m \in messages :
    /\ tasks[m].n_rate > 0
    /\ tasks[m].n_soft > 0
    /\ tasks[m].cause = "no_extraction"
    /\ tasks[m].backoff = Backoff("rate", max_retries - 2)

\* C33: after the failed attempt number a (from 0) that is not the last,
\* extract_event_data waits 2^a seconds, or min(30, 5 * 2^a) seconds when the
\* error is a rate limit, which is never more than 30; after the last attempt
\* it does not wait
C33_Backoff ==
  (call # NoCall /\ call.op = "extract_event_data") =>
    /\ call.calls <= call.retries
    /\ Len(call.sleeps) = IF call.calls = 0 THEN 0 ELSE call.calls - 1
    /\ \A i \in DOMAIN call.sleeps :
          IF call.classes[i] = "rate"
          THEN /\ call.sleeps[i] = (IF 5 * 2 ^ (i - 1) < 30 THEN 5 * 2 ^ (i - 1) ELSE 30)
               /\ call.sleeps[i] <= 30
          ELSE call.sleeps[i] = 2 ^ (i - 1)

\* five rate-limited attempts: the waits are 5, 10, 20 and the cap 30, and
\* the error is raised after the fifth without a wait
C33_Witness ==
  /\ call # NoCall
  /\ call.op = "extract_event_data"
  /\ call.retries = 5
  /\ call.sleeps = <<5, 10, 20, 30>>
  /\ call.returns = "raises"

\* C35: when a message leaves the queue and its extraction had returned a
\* result, the events table has a row whose fingerprint is
\* generate_fingerprint(source_url, extracted title, beautified text) of the
\* message, and rows and their fingerprints stay; a message is in the delete
\* batch only when its own process_message has ended and returned True
C35_DeletedMeansStored ==
  [][/\ DeleteStep =>
          \A m \in messages :
            /\ m \in EntriesToDelete =>
                 (tasks[m].pc = "done" /\ tasks[m].result = "True")
            /\ (m \notin queue' /\ tasks[m].extraction # 0) =>
                 /\ m \in EntriesToDelete
                 /\ RowsWith(FingerprintOf(m)) # {}
     /\ \A i \in DOMAIN events :
          /\ i \in DOMAIN events'
          /\ events'[i].dedupe_fingerprint = events[i].dedupe_fingerprint]_vars

\* a message has left the queue and the row inserted for it is in the
\* table, while another message of the batch, which failed, is still queued
C35_Witness ==
  /\ pollpc = "receive"
  /\ \E m \in Msgs \ queue : \E i \in DOMAIN events : events[i].source = body[m]
  /\ queue # {}
  /\ metrics.error_count > 0

\* the process_message calls that have not returned
Running == {m \in messages : tasks[m].pc # "done"}

\* C37: each process_message call that returns adds one to exactly one of
\* processed_count and error_count, so the two add up to the number of calls
\* that have returned, under every interleaving of the calls of a batch;
\* duplicate_count is never above processed_count
C37_MetricsAccounting ==
  [][/\ metrics.processed_count + metrics.error_count
          = deliveries - Cardinality(Running)
     /\ metrics.duplicate_count <= metrics.processed_count
     /\ \A m \in Msgs :
          (m \in messages /\ tasks[m].pc # "done" /\ tasks'[m].pc = "done") =>
             \/ /\ metrics'.processed_count = metrics.processed_count + 1
                /\ metrics'.error_count = metrics.error_count
             \/ /\ metrics'.processed_count = metrics.processed_count
                /\ metrics'.error_count = metrics.error_count + 1]_vars

\* two calls of one batch have returned, one counted as processed and one
\* as an error, while a duplicate was counted too
C37_Witness ==
  /\ Cardinality(messages) = 2
  /\ Running = {}
  /\ metrics.error_count >= 1
  /\ metrics.duplicate_count >= 1
  /\ metrics.processed_count >= 2
  /\ \E m \in messages : tasks[m].cause = "index_failed"

\* C36: an event whose message has left the queue after a successful
\* extraction is in the vector index: when index_event failed on the
\* delivery that inserted the event, the message stays queued and a later
\* delivery of it indexes the event
C36_DeletedMeansIndexed ==
  \A i \in DOMAIN events :
    (\A m \in Msgs : body[m] = events[i].source => m \notin queue) =>
       CountOf(vector_index, events[i].id) > 0

\* C38: an exception raised while receiving, processing or deleting a batch
\* does not end the poll loop: the loop ends only when running is false, and
\* after a caught exception it sleeps and goes back to receiving; once stop()
\* has set running to false no further batch is received, the loop ends
\* after the current iteration, and the messages of that iteration that did
\* not return True stay in the queue
C38_LoopSurvivesFailures ==
  [][/\ pollpc' = "exited" => ~running'
     /\ (pollpc = "sleep" /\ pollpc' # "sleep") => pollpc' = "receive"
     /\ ~running => (~running' /\ deliveries' = deliveries)
     /\ (~running /\ pollpc = "receive") => pollpc' = "exited"
     /\ pollpc = "exited" => UNCHANGED vars
     /\ (pollpc = "gather" /\ pollpc' # "gather") =>
          \A m \in messages : tasks[m].result # "True" => m \in queue']_vars

\* stop() came during an iteration: the loop has ended, and a message of
\* that iteration whose process_message failed is still in the queue
C38_Witness ==
  /\ pollpc = "exited"
  /\ ~running
  /\ metrics.error_count > 0
  /\ \E m \in queue : receive_count[m] > 0

\* C39: however the callers of get_db_pool interleave, the pools that were
\* created and not closed are at most one, the one the singleton holds: no
\* pool is overwritten by a second one and left open
C39_AtMostOnePool ==
  (call # NoCall /\ call.op = "db_pool") =>
    /\ Cardinality(call.open) <= 1
    /\ call.open \subseteq {call._pool}

\* the placeholders of a clause of the WHERE clause, in the order of the text
ClausePlaceholders(clause) ==
  IF clause.op = "AND" THEN <<clause.left.placeholder, clause.right.placeholder>>
  ELSE IF "literal" \in DOMAIN clause THEN <<>>
  ELSE <<clause.placeholder>>

\* the placeholders of the clauses from the i-th on
RECURSIVE PlaceholdersFrom(_, _)
PlaceholdersFrom(clauses, i) ==
  IF i > Len(clauses) THEN <<>>
  ELSE ClausePlaceholders(clauses[i]) \o PlaceholdersFrom(clauses, i + 1)

\* the placeholders of the final query in the order of its text: the WHERE
\* clause, ANY(...) of the category filter, LIMIT and OFFSET
QueryPlaceholders ==
  PlaceholdersFrom(call.where_clauses, 1)
    \o (IF call.slug_any # 0 THEN <<call.slug_any>> ELSE <<>>)
    \o <<call.limit, call.offset>>

\* the field of the request a comparison of the WHERE clause is about
FieldOfClause(clause) ==
  IF clause.column = "words" THEN "q"
  ELSE IF clause.column = "posted_at"
  THEN (IF clause.op = ">=" THEN "posted_from" ELSE "posted_to")
  ELSE IF clause.column = "deadline_at"
  THEN (IF clause.op = "<=" THEN "deadline_before" ELSE "deadline_after")
  ELSE IF clause.column = "occurs_from" THEN "occurs_to"
  ELSE IF clause.column = "occurs_to" THEN "occurs_from"
  ELSE clause.column

\* the comparisons of the WHERE clause that have a placeholder
Comparisons ==
  UNION {IF call.where_clauses[i].op = "AND"
         THEN {call.where_clauses[i].left, call.where_clauses[i].right}
         ELSE IF "literal" \in DOMAIN call.where_clauses[i] THEN {}
         ELSE {call.where_clauses[i]} : i \in DOMAIN call.where_clauses}

\* C40: in search_events the placeholders of the query are $1..$n in the order
\* of the parameter list, the placeholder of every comparison is bound to the
\* value of its own field of the request (occurs_from <= $k to occurs_to,
\* occurs_to >= $k+1 to occurs_from, ANY($n) to the array of categories), the
\* count query receives exactly the parameters of the filters and the final
\* query receives them followed by size and offset
C40_PlaceholdersAndParameters ==
  (call # NoCall /\ call.op = "search_events") =>
    /\ Len(QueryPlaceholders) = Len(call.params)
    /\ \A i \in DOMAIN QueryPlaceholders : QueryPlaceholders[i] = i
    /\ \A clause \in Comparisons :
         call.params[clause.placeholder] = call.request[FieldOfClause(clause)]
    /\ call.slug_any # 0 => call.params[call.slug_any] = call.request.category
    /\ call.count_params = SubSeq(call.params, 1, Len(call.params) - 2)
    /\ Len(call.count_params) =
         Cardinality({f \in FilterFields :
                        IF f = "is_remote" THEN call.request[f] # NULL
                        ELSE IF f = "category" THEN call.request[f] # <<>>
                        ELSE Truthy(call.request[f])})
    /\ call.params[call.limit] = call.request.size
    /\ call.params[call.offset] = (call.request.page - 1) * call.request.size

\* a search with both bounds of the occurrence for the second page of two events
C40_Witness ==
  /\ call # NoCall /\ call.op = "search_events"
  /\ call.request.occurs_from = "d1" /\ call.request.occurs_to = "d2"
  /\ call.request.page = 2 /\ call.request.size = 2
  /\ call.count_params = <<"d2", "d1">>
  /\ call.params = <<"d2", "d1", 2, 2>>
  /\ call.limit = 3 /\ call.offset = 4

====
